---- MODULE Spec2Model ----
(***************************************************************************)
(* A model of syrinc's LRC core: the tokenizer, the tag reader and         *)
(* remover, the timestamp conversions, the line offset corrector and the   *)
(* process_lyrics pass.                                                    *)
(*                                                                         *)
(* A std::string is a sequence of one-character strings, indexed from 1;   *)
(* the operators that return a C++ position (find, find_first_of) return   *)
(* it 0-based, as the code sees it, and npos when there is none.           *)
(***************************************************************************)
EXTENDS Integers, Sequences, FiniteSets, TLC

VARIABLES
    \* process_lyrics (process.cpp)
    lyrics, options, pc, options_tokens, oi,
    correctoffset, overrideoffset, invertoffset, dropmetadata,
    offset, li, out, corrected_with,
    \* the call of process_lyrics being made, first or second, and what the
    \* first one returned (cli.cpp)
    run, out_before,
    \* pop_tag called on its own (tag.cpp)
    pop_source, pop_key, pop_pc, pop_out, pop_calls,
    \* timestamp(ts).apply_offset(o, inv).as_string() (timestamp.cpp)
    ts_source, ts_pc, ts_duration, ts_before, ts_offset, ts_invert, ts_text,
    \* the warning of parse_timestamp and the answer of is_it_a_timestamp
    ts_warning, ts_shaped,
    \* correct_line_offset, tokenize_line, serialize_tokens and
    \* read_tags_from_line called on their own (line.cpp, token.cpp, tag.cpp)
    line_source, line_pc, line_offset, line_invert, line_text,
    line_mode, line_tokenized, line_joint, line_lyrics, line_tags, line_again

proc_vars == <<lyrics, options, pc, options_tokens, oi, correctoffset,
               overrideoffset, invertoffset, dropmetadata, offset, li, out,
               corrected_with, run, out_before>>
pop_vars == <<pop_source, pop_key, pop_pc, pop_out, pop_calls>>
ts_vars == <<ts_source, ts_pc, ts_duration, ts_before, ts_offset, ts_invert,
             ts_text, ts_warning, ts_shaped>>
line_vars == <<line_source, line_pc, line_offset, line_invert, line_text,
               line_mode, line_tokenized, line_joint, line_lyrics, line_tags,
               line_again>>
vars == <<proc_vars, pop_vars, ts_vars, line_vars>>

----------------------------------------------------------------------------
(* std::string and <cctype> helpers *)

npos == -1

\* F applied to the value of v, which is worked out once
Bind(v, F(_)) == CHOOSE r \in {F(x) : x \in {v}} : TRUE

Min(a, b) == IF a < b THEN a ELSE b

IsDigit(c) == c \in {"0", "1", "2", "3", "4", "5", "6", "7", "8", "9"}

\* std::isspace in the "C" locale (\v has no TLA+ escape and is left out)
IsSpace(c) == c \in {" ", "\t", "\n", "\r", "\f"}

DigitVal(c) ==
    CASE c = "0" -> 0 [] c = "1" -> 1 [] c = "2" -> 2 [] c = "3" -> 3
      [] c = "4" -> 4 [] c = "5" -> 5 [] c = "6" -> 6 [] c = "7" -> 7
      [] c = "8" -> 8 [] c = "9" -> 9

DigitChar(d) ==
    CASE d = 0 -> "0" [] d = 1 -> "1" [] d = 2 -> "2" [] d = 3 -> "3"
      [] d = 4 -> "4" [] d = 5 -> "5" [] d = 6 -> "6" [] d = 7 -> "7"
      [] d = 8 -> "8" [] d = 9 -> "9"

\* std::count(s.begin(), s.end(), c)
count(text, c) == Bind(text, LAMBDA s : Cardinality({i \in 1..Len(s) : s[i] = c}))

\* s.find_first_of(c): the 0-based position of the first c, or npos
find_first_of(text, c) ==
    Bind(text, LAMBDA s :
        IF \E i \in 1..Len(s) : s[i] = c
        THEN (CHOOSE i \in 1..Len(s) : s[i] = c /\ \A j \in 1..(i - 1) : s[j] # c) - 1
        ELSE npos)

\* s.find(key): the 0-based position of the first occurrence of key, or npos
find(text, key) ==
    Bind(text, LAMBDA s :
        LET at(i) == i + Len(key) - 1 <= Len(s) /\ SubSeq(s, i, i + Len(key) - 1) = key
        IN IF \E i \in 1..(Len(s) + 1) : at(i)
           THEN (CHOOSE i \in 1..(Len(s) + 1) : at(i) /\ \A j \in 1..(i - 1) : ~at(j)) - 1
           ELSE npos)

\* s.substr(pos, n), for pos <= s.length()
substr(text, pos, n) == Bind(text, LAMBDA s : SubSeq(s, pos + 1, Min(pos + n, Len(s))))

\* std::to_string of a non-negative integer
RECURSIVE to_string(_)
to_string(n) ==
    IF n < 10 THEN <<DigitChar(n)>>
    ELSE Append(to_string(n \div 10), DigitChar(n % 10))

\* The value of a run of digits
RECURSIVE DigitsValue(_, _)
DigitsValue(ds, n) ==
    IF n = 0 THEN 0 ELSE 10 * DigitsValue(ds, n - 1) + DigitVal(ds[n])

\* std::stol(s): skips leading whitespace, takes an optional sign and the
\* longest run of digits; with no digit there it throws
\* std::invalid_argument (raised). The result is [raised, val].
stol_value(s) ==
    LET ws == IF \E i \in 1..Len(s) : ~IsSpace(s[i])
              THEN (CHOOSE i \in 1..Len(s) :
                       ~IsSpace(s[i]) /\ \A j \in 1..(i - 1) : IsSpace(s[j])) - 1
              ELSE Len(s)
        signed(w) == w < Len(s) /\ s[w + 1] \in {"-", "+"}
        first(w) == IF signed(w) THEN w + 2 ELSE w + 1
        stop(f) == IF \E i \in f..Len(s) : ~IsDigit(s[i])
                   THEN CHOOSE i \in f..Len(s) :
                           ~IsDigit(s[i]) /\ \A j \in f..(i - 1) : IsDigit(s[j])
                   ELSE Len(s) + 1
        digits(f) == Bind(stop(f), LAMBDA e : SubSeq(s, f, e - 1))
        result(w, ds) ==
            IF ds = <<>> THEN [raised |-> TRUE, val |-> 0]
            ELSE [raised |-> FALSE,
                  val |-> (IF signed(w) /\ s[w + 1] = "-" THEN -1 ELSE 1)
                              * DigitsValue(ds, Len(ds))]
    IN Bind(ws, LAMBDA w : Bind(digits(first(w)), LAMBDA ds : result(w, ds)))

stol(s) == Bind(s, LAMBDA x : stol_value(x))

----------------------------------------------------------------------------
(* token.cpp *)

\* tokenize_line's flush, on st = [tokens, cur]: cur is the token being
\* built (the code's token_start and in_token)
flush(st) == IF st.cur # <<>> THEN Append(st.tokens, st.cur) ELSE st.tokens

\* tokenize_step that leaves the token being built open at a bracket
tokenize_step_no_flush(st, c, treat_as_lyrics_line) ==
    IF c = " " THEN [tokens |-> flush(st), cur |-> <<>>]
    ELSE IF treat_as_lyrics_line /\ c \in {"[", "]", "<", ">"}
         THEN [tokens |-> Append(st.tokens, <<c>>), cur |-> st.cur]
    ELSE [tokens |-> st.tokens, cur |-> Append(st.cur, c)]

\* The body of tokenize_line's loop for the character c
tokenize_step(st, c, treat_as_lyrics_line) ==
    IF c = " " THEN [tokens |-> flush(st), cur |-> <<>>]
    ELSE IF treat_as_lyrics_line /\ c \in {"[", "]", "<", ">"}
         THEN [tokens |-> Append(flush(st), <<c>>), cur |-> <<>>]
    ELSE [tokens |-> st.tokens, cur |-> Append(st.cur, c)]

\* tokenize_line's loop over the characters source[lo..hi], entered in the
\* state st: the first half of the range, then the second half from the
\* state the first one leaves
RECURSIVE tokenize_scan(_, _, _, _, _)
tokenize_scan(source, lo, hi, st, treat_as_lyrics_line) ==
    IF lo > hi THEN st
    ELSE IF lo = hi THEN tokenize_step(st, source[lo], treat_as_lyrics_line)
    ELSE Bind(tokenize_scan(source, lo, (lo + hi) \div 2, st, treat_as_lyrics_line),
              LAMBDA half :
                  tokenize_scan(source, (lo + hi) \div 2 + 1, hi, half,
                                treat_as_lyrics_line))

\* tokenize_line: the loop over the whole line, then the last flush
tokenize_line(source, treat_as_lyrics_line) ==
    Bind(source, LAMBDA s :
    Bind(tokenize_scan(s, 1, Len(s), [tokens |-> <<>>, cur |-> <<>>],
                       treat_as_lyrics_line),
         LAMBDA st : flush(st)))

\* tokens.cpp: the body of the loop of the older tokenize_line for the
\* character c, on st = [tokens, cur] with cur the code's current_token
tokenize_step_legacy(st, c, treat_as_lyrics_line) ==
    Bind(IF c = " " /\ st.cur # <<>>
         THEN [tokens |-> Append(st.tokens, st.cur), cur |-> <<>>]
         ELSE st,
         LAMBDA spaced :
        IF c \in {"[", "]", "<", ">"} /\ treat_as_lyrics_line
        THEN [tokens |-> Append(IF spaced.cur # <<>>
                                THEN Append(spaced.tokens, spaced.cur)
                                ELSE spaced.tokens, <<c>>),
              cur |-> <<>>]
        ELSE IF c # " " THEN [spaced EXCEPT !.cur = Append(spaced.cur, c)]
        ELSE spaced)

\* tokens.cpp: tokenize_line's loop over the characters source[lo..hi],
\* entered in the state st
RECURSIVE tokenize_scan_legacy(_, _, _, _, _)
tokenize_scan_legacy(source, lo, hi, st, treat_as_lyrics_line) ==
    IF lo > hi THEN st
    ELSE IF lo = hi THEN tokenize_step_legacy(st, source[lo], treat_as_lyrics_line)
    ELSE Bind(tokenize_scan_legacy(source, lo, (lo + hi) \div 2, st,
                                   treat_as_lyrics_line),
              LAMBDA half :
                  tokenize_scan_legacy(source, (lo + hi) \div 2 + 1, hi, half,
                                       treat_as_lyrics_line))

\* tokens.cpp: tokenize_line: the loop, then the token left open is added
tokenize_line_legacy(source, treat_as_lyrics_line) ==
    Bind(source, LAMBDA s :
    Bind(tokenize_scan_legacy(s, 1, Len(s), [tokens |-> <<>>, cur |-> <<>>],
                              treat_as_lyrics_line),
         LAMBDA st :
        IF st.cur # <<>> THEN Append(st.tokens, st.cur) ELSE st.tokens))

\* serialize_written that knows no rule for ':'
serialize_written_colon_joined(token_vector, i, joint, treat_as_lyrics_line) ==
    IF i = 1 THEN token_vector[1]
    ELSE LET dont_write_joint ==
                 /\ \/ token_vector[i - 1] = <<"[">>
                    \/ token_vector[i] = <<"]">>
                    \/ token_vector[i - 1] = <<"<">>
                    \/ token_vector[i] = <<">">>
                 /\ treat_as_lyrics_line
         IN (IF dont_write_joint THEN <<>> ELSE joint) \o token_vector[i]

\* serialize_tokens: what the pass of the loop for token i appends to out
serialize_written(token_vector, i, joint, treat_as_lyrics_line) ==
    IF i = 1 THEN token_vector[1]
    ELSE LET dont_write_joint ==
                 /\ \/ token_vector[i - 1] = <<"[">>
                    \/ token_vector[i] = <<"]">>
                    \/ token_vector[i - 1] = <<"<">>
                    \/ token_vector[i] = <<">">>
                    \/ token_vector[i] = <<":">>
                 /\ treat_as_lyrics_line
         IN (IF dont_write_joint THEN <<>> ELSE joint) \o token_vector[i]

\* serialize_tokens: what the passes for the tokens lo..hi append to out,
\* those of the first half of the range, then those of the second half
RECURSIVE serialize_range(_, _, _, _, _)
serialize_range(token_vector, lo, hi, joint, treat_as_lyrics_line) ==
    IF lo > hi THEN <<>>
    ELSE IF lo = hi
         THEN serialize_written(token_vector, lo, joint, treat_as_lyrics_line)
    ELSE serialize_range(token_vector, lo, (lo + hi) \div 2, joint,
                         treat_as_lyrics_line)
           \o serialize_range(token_vector, (lo + hi) \div 2 + 1, hi, joint,
                              treat_as_lyrics_line)

\* serialize_tokens: out after tokens 1..i have been written
serialize_upto(token_vector, i, joint, treat_as_lyrics_line) ==
    serialize_range(token_vector, 1, i, joint, treat_as_lyrics_line)

serialize_tokens(token_vector, joint, treat_as_lyrics_line) ==
    Bind(token_vector, LAMBDA v :
        serialize_upto(v, Len(v), joint, treat_as_lyrics_line))

trim_string(text) ==
    Bind(text, LAMBDA s :
        IF \A i \in 1..Len(s) : IsSpace(s[i]) THEN <<>>
        ELSE LET l == CHOOSE i \in 1..Len(s) :
                          ~IsSpace(s[i]) /\ \A j \in 1..(i - 1) : IsSpace(s[j])
                 r == CHOOSE i \in 1..Len(s) :
                          ~IsSpace(s[i]) /\ \A j \in (i + 1)..Len(s) : IsSpace(s[j])
             IN SubSeq(s, l, r))


----------------------------------------------------------------------------
(* timestamp.cpp and timestampconv.cpp *)

\* is_it_a_timestamp that takes the minus sign for a foreign character
is_it_a_timestamp_unsigned(text) ==
    Bind(text, LAMBDA source :
        /\ source # <<>>
        /\ count(source, ":") = 1
        /\ count(source, ".") = 1
        /\ \A i \in 1..Len(source) :
               IsDigit(source[i]) \/ source[i] = ":" \/ source[i] = ".")

is_it_a_timestamp(text) ==
    Bind(text, LAMBDA source :
        /\ source # <<>>
        /\ count(source, ":") = 1
        /\ count(source, ".") = 1
        /\ \A i \in (IF source[1] = "-" THEN 2 ELSE 1)..Len(source) :
               IsDigit(source[i]) \/ source[i] = ":" \/ source[i] = ".")

is_numeric_only(text) ==
    Bind(text, LAMBDA source :
        \A i \in 1..Len(source) :
            IsDigit(source[i]) \/ source[i] = "." \/ (i = 1 /\ source[i] = "-"))

\* The substrings parse_timestamp and divide_timestamp cut out of a
\* timestamp-shaped source and their three std::stol calls:
\* [raised, is_negative, mm, ss, cs]
ts_split(text) ==
    Bind(text, LAMBDA source :
    Bind(find_first_of(source, ":"), LAMBDA colon_pos :
    Bind(find_first_of(source, "."), LAMBDA dot_pos :
        LET is_negative == source[1] = "-"
            minutes_component ==
                substr(source, IF is_negative THEN 1 ELSE 0, colon_pos)
            seconds_component ==
                substr(source, colon_pos + 1, Len(source) - dot_pos - 1)
            centiseconds_component ==
                substr(source, dot_pos + 1, Len(source) - dot_pos - 1)
        IN Bind(stol(minutes_component), LAMBDA mm :
           Bind(stol(seconds_component), LAMBDA ss :
           Bind(stol(centiseconds_component), LAMBDA cs :
               IF mm.raised \/ ss.raised \/ cs.raised
               THEN [raised |-> TRUE, is_negative |-> is_negative,
                     mm |-> 0, ss |-> 0, cs |-> 0]
               ELSE [raised |-> FALSE, is_negative |-> is_negative,
                     mm |-> mm.val, ss |-> ss.val, cs |-> cs.val]))))))

\* timestamp::as_tsmap of a duration (zero_negative_timestamps = false)
as_tsmap(duration) ==
    LET remaining_ms == IF duration < 0 THEN -duration ELSE duration
        mm == remaining_ms \div 60000
        ss == (remaining_ms - mm * 60000) \div 1000
        cs == (remaining_ms - mm * 60000 - ss * 1000) \div 10
    IN [mm |-> mm, ss |-> ss, cs |-> cs]

\* as_string that never fills with a zero
as_string_no_filling(duration) ==
    Bind(as_tsmap(duration), LAMBDA ts :
        (IF duration < 0 THEN <<"-">> ELSE <<>>)
        \o to_string(ts.mm) \o <<":">>
        \o to_string(ts.ss) \o <<".">>
        \o to_string(ts.cs))

\* timestamp::as_string (no_filling = false)
as_string(duration) ==
    Bind(as_tsmap(duration), LAMBDA ts :
        (IF duration < 0 THEN <<"-">> ELSE <<>>)
        \o (IF ts.mm < 10 THEN <<"0">> ELSE <<>>) \o to_string(ts.mm) \o <<":">>
        \o (IF ts.ss < 10 THEN <<"0">> ELSE <<>>) \o to_string(ts.ss) \o <<".">>
        \o (IF ts.cs < 10 THEN <<"0">> ELSE <<>>) \o to_string(ts.cs))

\* parse_timestamp: [raised, val, warning]; warning is the message written
\* to std::cerr when a carry had to be made
parse_timestamp(text) ==
    Bind(text, LAMBDA source :
        IF ~is_it_a_timestamp(source)
        THEN [raised |-> FALSE, val |-> 0, warning |-> FALSE]
        ELSE Bind(ts_split(source), LAMBDA t :
            LET trigger_warning == t.ss >= 60 \/ t.cs >= 100
                ts == IF trigger_warning
                      THEN as_tsmap(t.mm * 60000 + t.ss * 1000 + t.cs * 10)
                      ELSE [mm |-> t.mm, ss |-> t.ss, cs |-> t.cs]
                duration == (ts.mm * 60000 + ts.ss * 1000 + ts.cs * 10)
                                * (IF t.is_negative THEN -1 ELSE 1)
            IN IF t.raised THEN [raised |-> TRUE, val |-> 0, warning |-> FALSE]
               ELSE [raised |-> FALSE, val |-> duration,
                     warning |-> trigger_warning]))

\* apply_offset without the floor at zero
apply_offset_unclamped(duration, offset_ms, invert_direction) ==
    duration - offset_ms * (IF invert_direction THEN -1 ELSE 1)

\* timestamp::apply_offset on a duration
apply_offset(duration, offset_ms, invert_direction) ==
    LET moved == duration - offset_ms * (IF invert_direction THEN -1 ELSE 1)
    IN IF moved <= 0 THEN 0 ELSE moved

\* ms_to_timestamp (no_filling = false, zero_negative_timestamps = false)
ms_to_timestamp(source) ==
    LET is_source_negative == source < 0
        remaining_ms == IF source < 0 THEN -source ELSE source
        mm == remaining_ms \div 60000
        ss == (remaining_ms - mm * 60000) \div 1000
        cs == (remaining_ms - mm * 60000 - ss * 1000) \div 10
    IN (IF is_source_negative THEN <<"-">> ELSE <<>>)
       \o (IF mm < 10 THEN <<"0">> ELSE <<>>) \o to_string(mm) \o <<":">>
       \o (IF ss < 10 THEN <<"0">> ELSE <<>>) \o to_string(ss) \o <<".">>
       \o (IF cs < 10 THEN <<"0">> ELSE <<>>) \o to_string(cs)

\* divide_timestamp of a timestamp-shaped source (the only use the program
\* makes of it: timestamp_to_ms tests the shape first). On a carry the
\* components are read back from the re-rendered text, is_negative included.
divide_timestamp(source) ==
    Bind(ts_split(source), LAMBDA t :
        IF t.raised THEN t
        ELSE IF t.ss >= 60 \/ t.cs >= 100
             THEN ts_split(ms_to_timestamp(t.mm * 60000 + t.ss * 1000 + t.cs * 10))
        ELSE t)

\* timestamp_to_ms: [raised, val]
timestamp_to_ms(source) ==
    IF ~is_it_a_timestamp(source) THEN [raised |-> FALSE, val |-> 0]
    ELSE Bind(divide_timestamp(source), LAMBDA ts :
        IF ts.raised THEN [raised |-> TRUE, val |-> 0]
        ELSE [raised |-> FALSE,
              val |-> (ts.mm * 60000 + ts.ss * 1000 + ts.cs * 10)
                          * (IF ts.is_negative THEN -1 ELSE 1)])

----------------------------------------------------------------------------
(* line.cpp *)

\* apply_offset_to_timestamp with the offset added instead of subtracted
apply_offset_to_timestamp_added(source, offset_ms, invert_direction) ==
    IF ~is_it_a_timestamp(source) THEN [raised |-> FALSE, val |-> source]
    ELSE Bind(timestamp_to_ms(source), LAMBDA ms :
        LET moved == ms.val + offset_ms * (IF invert_direction THEN -1 ELSE 1)
            ts_in_ms == IF moved <= 0 THEN 0 ELSE moved
        IN IF ms.raised THEN [raised |-> TRUE, val |-> <<>>]
           ELSE [raised |-> FALSE, val |-> ms_to_timestamp(ts_in_ms)])

\* apply_offset_to_timestamp: [raised, val] with val the rewritten text
apply_offset_to_timestamp(source, offset_ms, invert_direction) ==
    IF ~is_it_a_timestamp(source) THEN [raised |-> FALSE, val |-> source]
    ELSE Bind(timestamp_to_ms(source), LAMBDA ms :
        LET moved == ms.val - offset_ms * (IF invert_direction THEN -1 ELSE 1)
            ts_in_ms == IF moved <= 0 THEN 0 ELSE moved
        IN IF ms.raised THEN [raised |-> TRUE, val |-> <<>>]
           ELSE [raised |-> FALSE, val |-> ms_to_timestamp(ts_in_ms)])

\* correct_line_offset: [raised, val] with val the corrected line
correct_line_offset(source, offset_ms, invert_direction) ==
    Bind(tokenize_line(source, TRUE), LAMBDA line_tokens :
    Bind([i \in 1..Len(line_tokens) |->
             apply_offset_to_timestamp(line_tokens[i], offset_ms, invert_direction)],
         LAMBDA corrected :
        IF \E i \in 1..Len(line_tokens) : corrected[i].raised
        THEN [raised |-> TRUE, val |-> <<>>]
        ELSE [raised |-> FALSE,
              val |-> serialize_tokens([i \in 1..Len(line_tokens) |-> corrected[i].val],
                                       <<" ">>, TRUE)]))

----------------------------------------------------------------------------
(* tag.cpp *)

\* slice_at_character: the text before the first joint and the text after
slice_at_character(source, joint) ==
    Bind(find_first_of(source, joint), LAMBDA joint_index :
        IF joint_index = npos THEN [name |-> source, value |-> <<>>]
        ELSE [name |-> substr(source, 0, joint_index),
              value |-> substr(source, joint_index + 1, Len(source))])

\* The body of read_tags_from_line's first loop for the character c, on
\* st = [prolly_tags, building_tag, currently_in_tag]
read_step(st, c) ==
    IF c \in {"[", "<"} THEN [st EXCEPT !.currently_in_tag = TRUE]
    ELSE IF c \in {"]", ">"}
         THEN [prolly_tags |-> IF st.building_tag # <<>>
                               THEN Append(st.prolly_tags, st.building_tag)
                               ELSE st.prolly_tags,
               building_tag |-> <<>>,
               currently_in_tag |-> FALSE]
    ELSE IF st.currently_in_tag
         THEN [st EXCEPT !.building_tag = Append(st.building_tag, c)]
    ELSE st

\* read_tags_from_line's first loop over the characters source[lo..hi],
\* entered in the state st
RECURSIVE read_candidates_scan(_, _, _, _)
read_candidates_scan(source, lo, hi, st) ==
    IF lo > hi THEN st
    ELSE IF lo = hi THEN read_step(st, source[lo])
    ELSE Bind(read_candidates_scan(source, lo, (lo + hi) \div 2, st),
              LAMBDA half :
                  read_candidates_scan(source, (lo + hi) \div 2 + 1, hi, half))

\* The first loop from character i on, then the candidate left open is added
read_candidates(source, i, st) ==
    Bind(read_candidates_scan(source, i, Len(source), st), LAMBDA last :
        IF last.building_tag # <<>> THEN Append(last.prolly_tags, last.building_tag)
        ELSE last.prolly_tags)

\* divide_tag that leaves the spaces around the name and the value
divide_tag_untrimmed(i) ==
    IF is_it_a_timestamp(i) THEN [name |-> <<"t", "i", "m", "e">>, value |-> i]
    ELSE slice_at_character(i, ":")

\* read_tags_from_line's second loop, for the candidate i
divide_tag(i) ==
    IF is_it_a_timestamp(i) THEN [name |-> <<"t", "i", "m", "e">>, value |-> i]
    ELSE Bind(slice_at_character(i, ":"), LAMBDA slicen_tag :
        [name |-> trim_string(slicen_tag.name),
         value |-> trim_string(slicen_tag.value)])

read_tags_from_line(text) ==
    Bind(text, LAMBDA source :
    Bind(read_candidates(source, 1, [prolly_tags |-> <<>>, building_tag |-> <<>>,
                                     currently_in_tag |-> FALSE]),
         LAMBDA prolly_tags :
        [i \in 1..Len(prolly_tags) |-> divide_tag(prolly_tags[i])]))

\* no_matching_brackets without the test that index 0 holds a bracket
no_matching_brackets_index0(tokenized_source, opening_bracket_index, closing_bracket_index) ==
    \/ closing_bracket_index = npos
    \/ opening_bracket_index >= Len(tokenized_source)
    \/ closing_bracket_index >= Len(tokenized_source)
    \/ opening_bracket_index > closing_bracket_index

\* pop_tag's test that matching brackets were not found. The indices are the
\* code's, 0-based into tokenized_source.
no_matching_brackets(tokenized_source, opening_bracket_index, closing_bracket_index) ==
    \* if index 0 is not actually a brace
    \/ (opening_bracket_index = 0 /\ tokenized_source[1] # <<"[">>)
    \/ closing_bracket_index = npos
    \/ opening_bracket_index >= Len(tokenized_source)
    \/ closing_bracket_index >= Len(tokenized_source)
    \/ opening_bracket_index > closing_bracket_index

\* The variant of key_only_in_value that never rejects a part
key_only_in_value_never(thepart_serialized, key) ==
    FALSE

\* pop_tag's second validation: the serialized part has a ':' and the key does
\* not occur before it
key_only_in_value(thepart_serialized, key) ==
    Bind(find_first_of(thepart_serialized, ":"), LAMBDA thepart_colon_index :
        /\ thepart_colon_index # npos
        /\ find(substr(thepart_serialized, 0, thepart_colon_index), key) = npos)

\* pop_tag_once that takes out the first token with the key and nothing
\* else, whatever stands around it
pop_tag_once_token_only(text, key) ==
    Bind(text, LAMBDA source :
    Bind(tokenize_line(source, TRUE), LAMBDA tokenized_source :
    Bind({i \in 0..(Len(tokenized_source) - 1) :
             find(tokenized_source[i + 1], key) # npos}, LAMBDA found :
        IF found = {} THEN [out |-> source, repeat |-> FALSE]
        ELSE
    Bind(CHOOSE i \in found : \A j \in found : i <= j, LAMBDA key_index_in_vector :
        [out |-> serialize_tokens(
                     SubSeq(tokenized_source, 1, key_index_in_vector)
                         \o SubSeq(tokenized_source, key_index_in_vector + 2,
                                   Len(tokenized_source)),
                     <<" ">>, TRUE),
         repeat |-> Cardinality(found) > 1]))))

\* One call of pop_tag up to the point where it returns or calls itself:
\* out is what it returns, or what it calls itself on when repeat holds
pop_tag_once(text, key) ==
    Bind(text, LAMBDA source :
    Bind(tokenize_line(source, TRUE), LAMBDA tokenized_source :
    Bind({i \in 0..(Len(tokenized_source) - 1) :
             find(tokenized_source[i + 1], key) # npos}, LAMBDA found :
        \* If the key was never found, return as-is
        IF found = {} THEN [out |-> source, repeat |-> FALSE]
        ELSE
    Bind(CHOOSE i \in found : \A j \in found : i <= j, LAMBDA key_index_in_vector :
        LET size == Len(tokenized_source)
            will_need_to_repeat == Cardinality(found) > 1
            lefts == {i \in 0..key_index_in_vector : tokenized_source[i + 1] = <<"[">>}
            opening_bracket_index ==
                IF lefts = {} THEN 0 ELSE CHOOSE i \in lefts : \A j \in lefts : j <= i
            rights == {i \in key_index_in_vector..(size - 1) :
                          tokenized_source[i + 1] = <<"]">>}
            closing_bracket_index ==
                IF rights = {} THEN npos ELSE CHOOSE i \in rights : \A j \in rights : i <= j
            lpart == SubSeq(tokenized_source, 1, opening_bracket_index)
            rpart == SubSeq(tokenized_source, closing_bracket_index + 2, size)
            thepart ==
                SubSeq(tokenized_source, opening_bracket_index + 1, closing_bracket_index)
            thepart_serialized == serialize_tokens(thepart, <<" ">>, FALSE)
            popped == serialize_tokens(lpart \o rpart, <<" ">>, TRUE)
        IN IF no_matching_brackets(tokenized_source, opening_bracket_index,
                                   closing_bracket_index)
           THEN [out |-> source, repeat |-> FALSE]
           \* ONLY pop this if the occurence is actually part of the key
           ELSE IF key_only_in_value(thepart_serialized, key)
                THEN [out |-> source, repeat |-> FALSE]
           ELSE [out |-> popped, repeat |-> will_need_to_repeat]))))

RECURSIVE pop_tag(_, _)
pop_tag(text, key) ==
    Bind(text, LAMBDA source :
    Bind(pop_tag_once(source, key), LAMBDA call :
        IF call.repeat THEN pop_tag(call.out, key) ELSE call.out))

\* The sources of the calls of pop_tag that pop_tag(text, key) makes, its own
\* first
RECURSIVE pop_tag_calls(_, _)
pop_tag_calls(text, key) ==
    Bind(text, LAMBDA source :
    Bind(pop_tag_once(source, key), LAMBDA call :
        <<source>> \o (IF call.repeat THEN pop_tag_calls(call.out, key) ELSE <<>>)))
----------------------------------------------------------------------------
(* process.cpp: the literals of process_lyrics *)

kw_correctoffset ==
    <<"c", "o", "r", "r", "e", "c", "t", "o", "f", "f", "s", "e", "t">>
kw_invertoffset ==
    <<"i", "n", "v", "e", "r", "t", "o", "f", "f", "s", "e", "t">>
kw_dropmetadata ==
    <<"d", "r", "o", "p", "m", "e", "t", "a", "d", "a", "t", "a">>
kw_offset == <<"o", "f", "f", "s", "e", "t">>
kw_of == <<"o", "f">>
kw_time == <<"t", "i", "m", "e">>

\* The keys popped under dropmetadata, in the order of the code
metadata_keys ==
    << <<"t", "i">>, <<"a", "r">>, <<"a", "l">>, <<"a", "u">>,
       <<"l", "e">>, <<"b", "y">>, <<"r", "e">>, <<"v", "e">> >>

----------------------------------------------------------------------------
(* The inputs process_lyrics is run on *)

MaxLines == 2

\* the offset declaration of TEST_process_lyrics_vector, alone on its line
line_offset_750 ==
    <<"[", "o", "f", "f", "s", "e", "t", ":", " ", "7", "5", "0", "]">>
\* a timed lyric, no space after the bracket
line_she_was_crying ==
    <<"[", "0", "0", ":", "4", "0", ".", "1", "0", "]", "S", "h", "e", " ",
      "w", "a", "s", " ", "c", "r", "y", "i", "n", "g">>
\* a negative offset on the line it must already apply to
line_of_negative ==
    <<"[", "o", "f", ":", "-", "2", "5", "0", "]", " ", "[", "0", "0", ":",
      "0", "1", ".", "0", "0", "]", " ", "l", "a">>
\* an offset tag in angle brackets
line_of_angle ==
    <<"<", "o", "f", ":", "2", "0", ">", " ", "[", "0", "0", ":", "0", "2",
      ".", "0", "0", "]", " ", "b">>
\* a first offset tag with an empty value, then a numeric one
line_of_empty_then_9 ==
    <<"[", "o", "f", ":", "]", "[", "o", "f", ":", "9", "]", " ", "[", "0",
      "0", ":", "0", "3", ".", "0", "0", "]">>
\* two metadata tags, artist first
line_ar_ti ==
    <<"[", "a", "r", ":", " ", "A", "r", "t", "i", "s", "t", "]", "[", "t",
      "i", ":", " ", "S", "o", "n", "g", "]", " ", "[", "0", "0", ":", "0",
      "0", ".", "0", "0", "]", " ", "l", "y", "r", "i", "c">>
\* an offset value of a lone minus sign
line_of_minus == <<"[", "o", "f", ":", " ", "-", "]">>
\* a timestamp with no digit between ':' and '.'
line_ts_no_seconds == <<"[", "1", ":", ".", "5", "]", " ", "c">>
\* a lyric word containing 'of' before the offset tag
line_soft_of ==
    <<"s", "o", "f", "t", " ", "[", "o", "f", ":", "3", "0", "]", " ", "[",
      "0", "0", ":", "0", "5", ".", "0", "0", "]">>

\* an offset tag alone on its line, between spaces, its value a word
line_of_spaced == <<" ", " ", "[", "o", "f", ":", " ", "x", "]", " ">>

\* a first offset tag whose value is a lone minus sign, then a numeric one
line_of_minus_then_9 ==
    <<"[", "o", "f", ":", " ", "-", "]", "[", "o", "f", ":", "9", "]", " ",
      "[", "0", "0", ":", "0", "3", ".", "0", "0", "]">>
\* two offset tags with numeric values
line_of_5_then_9 ==
    <<"[", "o", "f", ":", "5", "]", "[", "o", "f", ":", "9", "]", " ", "[",
      "0", "0", ":", "0", "4", ".", "0", "0", "]">>

\* a tag without colon, the lyric word 'of', then the offset tag
line_la_of ==
    <<"[", "l", "a", "]", " ", "o", "f", " ", "[", "o", "f", ":", "1", "]">>

LinePool ==
    {line_offset_750,
     line_she_was_crying,
     line_of_negative,
     line_of_angle,
     line_of_empty_then_9,
     line_ar_ti,
     line_of_minus,
     line_ts_no_seconds,
     line_soft_of,
     line_of_spaced,
     line_of_minus_then_9,
     line_of_5_then_9,
     line_la_of}

opt_none == <<>>
opt_correct ==
    <<"c", "o", "r", "r", "e", "c", "t", "o", "f", "f", "s", "e", "t">>
opt_correct_invert ==
    <<"c", "o", "r", "r", "e", "c", "t", "o", "f", "f", "s", "e", "t", " ",
      "i", "n", "v", "e", "r", "t", "o", "f", "f", "s", "e", "t">>
opt_override_100 ==
    <<"c", "o", "r", "r", "e", "c", "t", "o", "f", "f", "s", "e", "t", ":",
      "1", "0", "0">>
opt_drop == <<"d", "r", "o", "p", "m", "e", "t", "a", "d", "a", "t", "a">>
opt_all ==
    <<"c", "o", "r", "r", "e", "c", "t", "o", "f", "f", "s", "e", "t", ":",
      "-", "1", "2", "5", "0", " ", "i", "n", "v", "e", "r", "t", "o", "f",
      "f", "s", "e", "t", " ", "d", "r", "o", "p", "m", "e", "t", "a", "d",
      "a", "t", "a">>
opt_override_minus ==
    <<"c", "o", "r", "r", "e", "c", "t", "o", "f", "f", "s", "e", "t", ":",
      "-">>
opt_word_unknown ==
    <<"c", "o", "r", "r", "e", "c", "t", "o", "f", "f", "s", "e", "t", ":",
      "a", "b", "c", " ", "b", "o", "g", "u", "s", ":", "1">>

\* a value that is not numeric, an unknown name, and invertoffset
opt_word_invert ==
    <<"c", "o", "r", "r", "e", "c", "t", "o", "f", "f", "s", "e", "t", ":",
      "1", "x", " ", "d", "r", "o", "p", "m", "e", "t", "a", "d", "a", "t",
      "a", "s", ":", "1", " ", "i", "n", "v", "e", "r", "t", "o", "f", "f",
      "s", "e", "t">>

OptionPool ==
    {opt_none,
     opt_correct,
     opt_correct_invert,
     opt_override_100,
     opt_drop,
     opt_all,
     opt_override_minus,
     opt_word_unknown,
     opt_word_invert}

\* Every sequence of at most MaxLines lines of the pool
LyricsInputs == UNION {[1..n -> LinePool] : n \in 0..MaxLines}

----------------------------------------------------------------------------
(* process.cpp: process_lyrics *)

\* read_option that takes a name for an option when it begins like one
read_option_by_prefix(o, flags) ==
    Bind(slice_at_character(o, ":"), LAMBDA opair :
    Bind(trim_string(opair.name), LAMBDA name :
    Bind(trim_string(opair.value), LAMBDA value :
        IF find(name, kw_correctoffset) = 0
        THEN IF value # <<>> /\ is_numeric_only(value)
             THEN Bind(stol(value), LAMBDA converted :
                 IF converted.raised
                 THEN [flags EXCEPT !.raised = TRUE, !.correctoffset = TRUE]
                 ELSE [flags EXCEPT !.correctoffset = TRUE,
                                    !.offset = converted.val,
                                    !.overrideoffset = TRUE])
             ELSE [flags EXCEPT !.correctoffset = TRUE]
        ELSE IF find(name, kw_invertoffset) = 0 THEN [flags EXCEPT !.invertoffset = TRUE]
        ELSE IF find(name, kw_dropmetadata) = 0 THEN [flags EXCEPT !.dropmetadata = TRUE]
        ELSE flags)))

\* read_option with invertoffset not recognized
read_option_without_invert(o, flags) ==
    Bind(slice_at_character(o, ":"), LAMBDA opair :
    Bind(trim_string(opair.name), LAMBDA name :
    Bind(trim_string(opair.value), LAMBDA value :
        IF name = kw_correctoffset
        THEN IF value # <<>> /\ is_numeric_only(value)
             THEN Bind(stol(value), LAMBDA converted :
                 IF converted.raised
                 THEN [flags EXCEPT !.raised = TRUE, !.correctoffset = TRUE]
                 ELSE [flags EXCEPT !.correctoffset = TRUE,
                                    !.offset = converted.val,
                                    !.overrideoffset = TRUE])
             ELSE [flags EXCEPT !.correctoffset = TRUE]
        ELSE IF name = kw_dropmetadata THEN [flags EXCEPT !.dropmetadata = TRUE]
        ELSE flags)))

\* The body of the option loop for the option token o, on the flags and the
\* offset so far; raised when std::stol threw
read_option(o, flags) ==
    Bind(slice_at_character(o, ":"), LAMBDA opair :
    Bind(trim_string(opair.name), LAMBDA name :
    Bind(trim_string(opair.value), LAMBDA value :
        IF name = kw_correctoffset
        THEN IF value # <<>> /\ is_numeric_only(value)
             THEN Bind(stol(value), LAMBDA converted :
                 IF converted.raised
                 THEN [flags EXCEPT !.raised = TRUE, !.correctoffset = TRUE]
                 ELSE [flags EXCEPT !.correctoffset = TRUE,
                                    !.offset = converted.val,
                                    !.overrideoffset = TRUE])
             ELSE [flags EXCEPT !.correctoffset = TRUE]
        ELSE IF name = kw_invertoffset THEN [flags EXCEPT !.invertoffset = TRUE]
        ELSE IF name = kw_dropmetadata THEN [flags EXCEPT !.dropmetadata = TRUE]
        ELSE flags)))

\* The position in tags of the first tag named offset or of, 0 if there is
\* none (the tag loop breaks at the first one)
first_offset_tag(tags) ==
    LET named == {k \in 1..Len(tags) : tags[k].name = kw_offset \/ tags[k].name = kw_of}
    IN IF named = {} THEN 0 ELSE CHOOSE k \in named : \A j \in named : k <= j

\* running_offset that honours only the first declaration of the file
running_offset_first_declaration(tags, running, override) ==
    Bind(first_offset_tag(tags), LAMBDA k :
        IF /\ k # 0 /\ tags[k].value # <<>> /\ is_numeric_only(tags[k].value)
           /\ ~override /\ running = 0
        THEN stol(tags[k].value)
        ELSE [raised |-> FALSE, val |-> running])

\* The running offset after the tag loop of one line: [raised, val]
running_offset(tags, running, override) ==
    Bind(first_offset_tag(tags), LAMBDA k :
        IF k # 0 /\ tags[k].value # <<>> /\ is_numeric_only(tags[k].value) /\ ~override
        THEN stol(tags[k].value)
        ELSE [raised |-> FALSE, val |-> running])

\* The pop_tag calls made under dropmetadata for the keys lo..hi, one after
\* the other: those of the first half of the keys, then those of the second
\* half on what the first ones return
RECURSIVE pop_metadata_keys(_, _, _)
pop_metadata_keys(line, lo, hi) ==
    IF lo > hi THEN line
    ELSE IF lo = hi THEN pop_tag(line, metadata_keys[lo])
    ELSE Bind(pop_metadata_keys(line, lo, (lo + hi) \div 2), LAMBDA popped :
             pop_metadata_keys(popped, (lo + hi) \div 2 + 1, hi))

\* The pop_tag calls made under dropmetadata, for the keys 1..n
pop_metadata(line, n) == pop_metadata_keys(line, 1, n)

\* processed_line when the emptiness test is reached
strip_line(line, drop, does_this_line_have_an_offset_tag) ==
    IF does_this_line_have_an_offset_tag
    THEN pop_tag(IF drop THEN pop_metadata(line, Len(metadata_keys)) ELSE line, kw_of)
    ELSE IF drop THEN pop_metadata(line, Len(metadata_keys)) ELSE line

PopIdle ==
    /\ pop_source = <<>> /\ pop_key = <<>> /\ pop_pc = "idle" /\ pop_out = <<>>
    /\ pop_calls = <<>>

TsIdle ==
    /\ ts_source = <<>> /\ ts_pc = "idle" /\ ts_duration = 0 /\ ts_before = 0
    /\ ts_offset = 0 /\ ts_invert = FALSE /\ ts_text = <<>>
    /\ ts_warning = FALSE /\ ts_shaped = FALSE

LineIdle ==
    /\ line_source = <<>> /\ line_pc = "idle" /\ line_offset = 0
    /\ line_invert = FALSE /\ line_text = <<>> /\ line_mode = FALSE
    /\ line_tokenized = <<>> /\ line_joint = <<>> /\ line_lyrics = FALSE
    /\ line_tags = <<>> /\ line_again = <<>>

ProcIdle ==
    /\ lyrics = <<>> /\ options = <<>> /\ pc = "idle" /\ options_tokens = <<>>
    /\ oi = 0 /\ correctoffset = FALSE /\ overrideoffset = FALSE
    /\ invertoffset = FALSE /\ dropmetadata = FALSE /\ offset = 0 /\ li = 0
    /\ out = <<>> /\ corrected_with = <<>> /\ run = 1 /\ out_before = <<>>

\* process_lyrics is entered: the locals are set and the options tokenized
Init ==
    /\ lyrics \in LyricsInputs
    /\ options \in OptionPool
    /\ options_tokens = tokenize_line(options, FALSE)
    /\ pc = "options"
    /\ oi = 0
    /\ correctoffset = FALSE
    /\ overrideoffset = FALSE
    /\ invertoffset = FALSE
    /\ dropmetadata = FALSE
    /\ offset = 0
    /\ li = 0
    /\ out = <<>>
    /\ corrected_with = <<>>
    /\ run = 1
    /\ out_before = <<>>
    /\ PopIdle
    /\ TsIdle
    /\ LineIdle

\* One pass of the option loop, on options_tokens[oi + 1]
ReadOption ==
    /\ pc = "options"
    /\ oi < Len(options_tokens)
    /\ \E after \in {read_option(options_tokens[oi + 1],
                                 [raised |-> FALSE, correctoffset |-> correctoffset,
                                  overrideoffset |-> overrideoffset,
                                  invertoffset |-> invertoffset,
                                  dropmetadata |-> dropmetadata, offset |-> offset])} :
          /\ pc' = IF after.raised THEN "raised" ELSE "options"
          /\ oi' = oi + 1
          /\ correctoffset' = after.correctoffset
          /\ overrideoffset' = after.overrideoffset
          /\ invertoffset' = after.invertoffset
          /\ dropmetadata' = after.dropmetadata
          /\ offset' = after.offset
    /\ UNCHANGED <<lyrics, options, options_tokens, li, out, corrected_with>>
    /\ UNCHANGED <<run, out_before>>
    /\ UNCHANGED <<pop_vars, ts_vars, line_vars>>

\* The option loop ends and the line loop begins
StartLines ==
    /\ pc = "options"
    /\ oi = Len(options_tokens)
    /\ pc' = "lines"
    /\ UNCHANGED <<lyrics, options, options_tokens, oi, correctoffset,
                   overrideoffset, invertoffset, dropmetadata, offset, li, out,
                   corrected_with>>
    /\ UNCHANGED <<run, out_before>>
    /\ UNCHANGED <<pop_vars, ts_vars, line_vars>>

\* One pass of the line loop, on lyrics[li + 1]. corrected_with records, for
\* each line passed, whether correct_line_offset was called on it and the
\* offset it was given.
ProcessLine ==
    /\ pc = "lines"
    /\ li < Len(lyrics)
    /\ \E tags \in {read_tags_from_line(lyrics[li + 1])} :
       \E updated \in {running_offset(tags, offset, overrideoffset)} :
          IF updated.raised
          THEN /\ pc' = "raised"
               /\ UNCHANGED <<offset, li, out, corrected_with>>
          ELSE
       \E processed_line \in {strip_line(lyrics[li + 1], dropmetadata,
                                         first_offset_tag(tags) # 0)} :
          IF trim_string(processed_line) = <<>>
          THEN /\ pc' = "lines"
               /\ offset' = updated.val
               /\ li' = li + 1
               /\ out' = out
               /\ corrected_with' =
                      Append(corrected_with, [called |-> FALSE, offset |-> 0])
          ELSE IF ~correctoffset
          THEN /\ pc' = "lines"
               /\ offset' = updated.val
               /\ li' = li + 1
               /\ out' = Append(out, processed_line)
               /\ corrected_with' =
                      Append(corrected_with, [called |-> FALSE, offset |-> 0])
          ELSE
       \E corrected \in {correct_line_offset(processed_line, updated.val,
                                             invertoffset)} :
          IF corrected.raised
          THEN /\ pc' = "raised"
               /\ offset' = updated.val
               /\ UNCHANGED <<li, out, corrected_with>>
          ELSE /\ pc' = "lines"
               /\ offset' = updated.val
               /\ li' = li + 1
               /\ out' = Append(out, corrected.val)
               /\ corrected_with' =
                      Append(corrected_with, [called |-> TRUE, offset |-> updated.val])
    /\ UNCHANGED <<lyrics, options, options_tokens, oi, correctoffset,
                   overrideoffset, invertoffset, dropmetadata>>
    /\ UNCHANGED <<run, out_before>>
    /\ UNCHANGED <<pop_vars, ts_vars, line_vars>>

\* The line loop ends and out is returned
Return ==
    /\ pc = "lines"
    /\ li = Len(lyrics)
    /\ pc' = "done"
    /\ UNCHANGED <<lyrics, options, options_tokens, oi, correctoffset,
                   overrideoffset, invertoffset, dropmetadata, offset, li, out,
                   corrected_with>>
    /\ UNCHANGED <<run, out_before>>
    /\ UNCHANGED <<pop_vars, ts_vars, line_vars>>

Next == ReadOption \/ StartLines \/ ProcessLine \/ Return

Spec == Init /\ [][Next]_vars

----------------------------------------------------------------------------
(* cli.cpp: an external .lrc linked to an audio file *)

MaxLinkedLines == 1

\* The lines of the linked .lrc file
InitLinked ==
    /\ Init
    /\ Len(lyrics) <= MaxLinkedLines

\* main has the lines process_lyrics returned for the linked .lrc and hands
\* them to handle_audio_file_directly, which calls process_lyrics on them
\* with the same options
ProcessAgain ==
    /\ pc = "done"
    /\ run = 1
    /\ run' = 2
    /\ out_before' = out
    /\ lyrics' = out
    /\ pc' = "options"
    /\ oi' = 0
    /\ correctoffset' = FALSE
    /\ overrideoffset' = FALSE
    /\ invertoffset' = FALSE
    /\ dropmetadata' = FALSE
    /\ offset' = 0
    /\ li' = 0
    /\ out' = <<>>
    /\ corrected_with' = <<>>
    /\ UNCHANGED <<options, options_tokens>>
    /\ UNCHANGED <<pop_vars, ts_vars, line_vars>>

NextLinked == ReadOption \/ StartLines \/ ProcessLine \/ Return \/ ProcessAgain

SpecLinked == InitLinked /\ [][NextLinked]_vars

----------------------------------------------------------------------------
(* pop_tag called on its own, as TEST_pop_tag does *)

MaxFrags == 3

\* a tag named x
frag_x1 == <<"[", "x", ":", "1", "]">>
\* a second tag named x
frag_x2 == <<"[", "x", ":", "2", "]">>
\* a lyric word without x, after a space
frag_rest == <<" ", "r", "e", "s", "t">>
\* a tag with x in its value only
frag_yx == <<"[", "y", ":", "x", "]">>
\* a lyric word containing x
frag_ax == <<"a", "x", " ">>
\* an opening bracket that is never closed
frag_open == <<"[", "x">>
\* two spaces
frag_spaces == <<" ", " ">>
\* a tag named x with spaces inside the brackets
frag_loose == <<"[", " ", "x", " ", ":", " ", "1", " ", "]">>
\* a tag named x in angle brackets
frag_angle == <<"<", "x", ":", "3", ">">>
\* a tag with no colon and no x
frag_a == <<"[", "a", "]">>

FragPool ==
    {frag_x1,
     frag_x2,
     frag_rest,
     frag_yx,
     frag_ax,
     frag_open,
     frag_spaces,
     frag_loose,
     frag_angle,
     frag_a}

key_x == <<"x">>
key_y == <<"y">>
key_1 == <<"1">>
key_empty == <<>>

PopKeys == {key_x, key_y, key_1, key_empty}

\* The fragments fs[1..n] written one after the other
RECURSIVE Concat(_, _)
Concat(fs, n) == IF n = 0 THEN <<>> ELSE Concat(fs, n - 1) \o fs[n]

\* Every line made of at most MaxFrags fragments
PopLines == {Concat(fs, Len(fs)) : fs \in UNION {[1..n -> FragPool] : n \in 0..MaxFrags}}

InitPop ==
    /\ pop_source \in PopLines
    /\ pop_key \in PopKeys
    /\ pop_pc = "call"
    /\ pop_out = <<>>
    /\ pop_calls = <<>>
    /\ ProcIdle
    /\ TsIdle
    /\ LineIdle

\* pop_tag(pop_source, pop_key) returns pop_out; pop_calls keeps the source
\* of each call it made of itself
PopTag ==
    /\ pop_pc = "call"
    /\ pop_out' = pop_tag(pop_source, pop_key)
    /\ pop_calls' = pop_tag_calls(pop_source, pop_key)
    /\ pop_pc' = "returned"
    /\ UNCHANGED <<pop_source, pop_key>>
    /\ UNCHANGED <<proc_vars, ts_vars, line_vars>>

\* serialize_tokens(tokenize_line(pop_source, true), " ", true)
Reserialize ==
    /\ pop_pc = "call"
    /\ pop_out' = serialize_tokens(tokenize_line(pop_source, TRUE), <<" ">>, TRUE)
    /\ pop_pc' = "reserialized"
    /\ UNCHANGED <<pop_source, pop_key, pop_calls>>
    /\ UNCHANGED <<proc_vars, ts_vars, line_vars>>

NextPop == PopTag \/ Reserialize

SpecPop == InitPop /\ [][NextPop]_vars

----------------------------------------------------------------------------
(* A timestamp object built, offset and rendered, as
   TEST_apply_offset_to_timestamp does, and apply_offset_to_timestamp on
   the same text *)

MaxQuarter == 5

ts_13_75 == <<"0", "0", ":", "1", "3", ".", "7", "5">>
ts_zero == <<"0", "0", ":", "0", "0", ".", "0", "0">>
ts_40_10 == <<"0", "0", ":", "4", "0", ".", "1", "0">>
ts_12_34_56 == <<"1", "2", ":", "3", "4", ".", "5", "6">>
ts_negative == <<"-", "0", "0", ":", "0", "0", ".", "1", "4">>
ts_carry == <<"1", ":", "7", "5", ".", "0", "0">>
ts_negative_carry == <<"-", "1", ":", "7", "5", ".", "0", "0">>
ts_short == <<"1", ":", "2", ".", "3">>
ts_no_seconds == <<"1", ":", ".", "5">>
ts_word == <<"a", "b", "c">>

ts_empty == <<>>
ts_negative_zero == <<"-", "0", "0", ":", "0", "0", ".", "0", "0">>
ts_99_59_99 == <<"9", "9", ":", "5", "9", ".", "9", "9">>
ts_100_00_00 == <<"1", "0", "0", ":", "0", "0", ".", "0", "0">>
ts_negative_65 == <<"-", "6", "5", ":", "5", "5", ".", "3", "6">>
ts_02_15 == <<"0", "2", ":", "1", "5", ".", "0", "0">>
ts_dot_first == <<"5", "6", ".", "6", "5", ":", "2", "3">>
ts_negative_dot_first == <<"-", "5", "6", ".", "6", "5", ":", "2", "3">>
ts_two_colons == <<"1", "2", ":", "3", "4", ":", "5", "6">>
ts_two_dots == <<"5", "5", ".", "5", "6", ".", "1", "2">>
ts_inner_minus == <<"1", "2", "-", "3", "4", ".", "5", "6">>
ts_letter == <<"0", "0", ":", "0", "0", "a", "0", "0">>
ts_digits == <<"2", "5", "0">>
ts_minus == <<"-">>
ts_separators == <<":", ".">>
ts_two_minus == <<"-", "-", "1", ":", "2", ".", "3">>
ts_plus == <<"+", "1", ":", "2", ".", "3">>
ts_space == <<"1", ":", " ", "2", ".", "3">>

\* The digit runs the timestamp-shaped texts are made of
DigitRuns ==
    {<<>>, <<"0">>, <<"5">>, <<"0", "7">>, <<"5", "9">>, <<"7", "5">>,
     <<"1", "0", "0">>}

\* [-] run : run . run, for every choice of the three runs
TsShapes ==
    {sign \o mm \o <<":">> \o ss \o <<".">> \o cs :
        sign \in {<<>>, <<"-">>}, mm \in DigitRuns, ss \in DigitRuns,
        cs \in DigitRuns}

TsPool ==
    {ts_13_75,
     ts_zero,
     ts_40_10,
     ts_12_34_56,
     ts_negative,
     ts_carry,
     ts_negative_carry,
     ts_short,
     ts_no_seconds,
     ts_word,
     ts_empty,
     ts_negative_zero,
     ts_99_59_99,
     ts_100_00_00,
     ts_negative_65,
     ts_02_15,
     ts_dot_first,
     ts_negative_dot_first,
     ts_two_colons,
     ts_two_dots,
     ts_inner_minus,
     ts_letter,
     ts_digits,
     ts_minus,
     ts_separators,
     ts_two_minus,
     ts_plus,
     ts_space}
    \cup TsShapes

\* Durations and offsets in ms: the quarter seconds up to MaxQuarter, both
\* signs, and the offset of 1 ms
MsPool == {k * 250 : k \in (-MaxQuarter)..MaxQuarter}

OffsetPool == MsPool \cup {1}

InitTs ==
    /\ ts_source \in TsPool
    /\ ts_offset \in OffsetPool
    /\ ts_invert \in BOOLEAN
    /\ ts_pc = "new"
    /\ ts_duration = 0
    /\ ts_before = 0
    /\ ts_text = <<>>
    /\ ts_warning = FALSE
    /\ ts_shaped = FALSE
    /\ ProcIdle
    /\ PopIdle
    /\ LineIdle

\* is_it_a_timestamp(ts_source)
IsItATimestamp ==
    /\ ts_pc = "new"
    /\ ts_shaped' = is_it_a_timestamp(ts_source)
    /\ ts_pc' = "tested"
    /\ UNCHANGED <<ts_source, ts_duration, ts_before, ts_offset, ts_invert,
                   ts_text, ts_warning>>
    /\ UNCHANGED <<proc_vars, pop_vars, line_vars>>

\* timestamp::timestamp(std::string source)
FromString ==
    /\ ts_pc = "new"
    /\ \E parsed \in {parse_timestamp(ts_source)} :
          /\ ts_pc' = IF parsed.raised THEN "raised" ELSE "parsed"
          /\ ts_duration' = parsed.val
          /\ ts_warning' = parsed.warning
    /\ UNCHANGED <<ts_source, ts_before, ts_offset, ts_invert, ts_text, ts_shaped>>
    /\ UNCHANGED <<proc_vars, pop_vars, line_vars>>

\* timestamp::timestamp(int64_t duration): there is no source text
FromDuration ==
    /\ ts_pc = "new"
    /\ ts_source = <<>>
    /\ \E duration \in MsPool : ts_duration' = duration
    /\ ts_pc' = "built"
    /\ UNCHANGED <<ts_source, ts_before, ts_offset, ts_invert, ts_text,
                   ts_warning, ts_shaped>>
    /\ UNCHANGED <<proc_vars, pop_vars, line_vars>>

\* timestamp::apply_offset(ts_offset, ts_invert); ts_before keeps the
\* duration it was called on
ApplyOffset ==
    /\ ts_pc \in {"parsed", "built"}
    /\ ts_before' = ts_duration
    /\ ts_duration' = apply_offset(ts_duration, ts_offset, ts_invert)
    /\ ts_pc' = "offset"
    /\ UNCHANGED <<ts_source, ts_offset, ts_invert, ts_text, ts_warning, ts_shaped>>
    /\ UNCHANGED <<proc_vars, pop_vars, line_vars>>

\* timestamp::as_string(), of the object just parsed or of the object offset
AsString ==
    /\ ts_pc \in {"parsed", "offset"}
    /\ ts_text' = as_string(ts_duration)
    /\ ts_pc' = IF ts_pc = "parsed" THEN "formatted" ELSE "rendered"
    /\ UNCHANGED <<ts_source, ts_duration, ts_before, ts_offset, ts_invert,
                   ts_warning, ts_shaped>>
    /\ UNCHANGED <<proc_vars, pop_vars, line_vars>>

\* timestamp_to_ms(ts_source) of timestampconv.cpp
TimestampToMs ==
    /\ ts_pc = "new"
    /\ \E ms \in {timestamp_to_ms(ts_source)} :
          /\ ts_pc' = IF ms.raised THEN "raised" ELSE "converted"
          /\ ts_duration' = ms.val
    /\ UNCHANGED <<ts_source, ts_before, ts_offset, ts_invert, ts_text,
                   ts_warning, ts_shaped>>
    /\ UNCHANGED <<proc_vars, pop_vars, line_vars>>

\* apply_offset_to_timestamp(ts_source, ts_offset, ts_invert) of line.cpp
ApplyOffsetToTimestamp ==
    /\ ts_pc = "new"
    /\ \E rewritten \in {apply_offset_to_timestamp(ts_source, ts_offset, ts_invert)} :
          /\ ts_pc' = IF rewritten.raised THEN "raised" ELSE "rewritten"
          /\ ts_text' = rewritten.val
    /\ UNCHANGED <<ts_source, ts_duration, ts_before, ts_offset, ts_invert,
                   ts_warning, ts_shaped>>
    /\ UNCHANGED <<proc_vars, pop_vars, line_vars>>

NextTs ==
    \/ IsItATimestamp
    \/ FromString
    \/ FromDuration
    \/ ApplyOffset
    \/ AsString
    \/ TimestampToMs
    \/ ApplyOffsetToTimestamp

SpecTs == InitTs /\ [][NextTs]_vars


----------------------------------------------------------------------------
(* line.cpp, token.cpp and tag.cpp: the line operations called on their own *)

MaxPieces == 3

piece_open == <<"[">>
piece_close == <<"]">>
piece_less == <<"<">>
piece_greater == <<">">>
piece_colon == <<":">>
piece_space == <<" ">>
piece_a == <<"a">>
\* a timestamp as the program writes them
piece_ts == <<"0", "0", ":", "0", "1", ".", "0", "0">>
\* a negative timestamp whose seconds must be carried
piece_ts_negative_carry == <<"-", "1", ":", "7", "5", ".", "0", "0">>
\* digits around a dot: a timestamp once a ':' is written after it
piece_1_5 == <<"1", ".", "5">>
\* a name and a value with spaces around them and around the ':'
piece_spaced == <<" ", "a", " ", ":", " ", "a", " ">>

PiecePool ==
    {piece_open,
     piece_close,
     piece_less,
     piece_greater,
     piece_colon,
     piece_space,
     piece_a,
     piece_ts,
     piece_ts_negative_carry,
     piece_1_5,
     piece_spaced}

\* Every line made of at most MaxPieces pieces
PieceLines ==
    {Concat(ps, Len(ps)) : ps \in UNION {[1..n -> PiecePool] : n \in 0..MaxPieces}}

\* The offsets correct_line_offset is called with
LineOffsets == {0, 250}

\* The joints serialize_tokens is called with
JointPool == {<<" ">>, <<"\n">>}

InitLine ==
    /\ line_source \in PieceLines
    /\ line_pc = "call"
    /\ line_offset = 0
    /\ line_invert = FALSE
    /\ line_text = <<>>
    /\ line_mode = FALSE
    /\ line_tokenized = <<>>
    /\ line_joint = <<>>
    /\ line_lyrics = FALSE
    /\ line_tags = <<>>
    /\ line_again = <<>>
    /\ ProcIdle
    /\ PopIdle
    /\ TsIdle

\* correct_line_offset(line_source, o, inv) returns line_text, or throws
CorrectLineOffset ==
    /\ line_pc = "call"
    /\ \E o \in LineOffsets : \E inv \in BOOLEAN :
       \E corrected \in {correct_line_offset(line_source, o, inv)} :
          /\ line_offset' = o
          /\ line_invert' = inv
          /\ line_pc' = IF corrected.raised THEN "raised" ELSE "corrected"
          /\ line_text' = corrected.val
    /\ UNCHANGED <<line_source, line_mode, line_tokenized, line_joint,
                   line_lyrics, line_tags, line_again>>
    /\ UNCHANGED <<proc_vars, pop_vars, ts_vars>>

\* correct_line_offset called on the line it returned, with the same
\* arguments
CorrectLineOffsetAgain ==
    /\ line_pc = "corrected"
    /\ \E corrected \in {correct_line_offset(line_text, line_offset, line_invert)} :
          /\ line_pc' = IF corrected.raised THEN "raised_again"
                        ELSE "corrected_again"
          /\ line_again' = corrected.val
    /\ UNCHANGED <<line_source, line_offset, line_invert, line_text,
                   line_mode, line_tokenized, line_joint, line_lyrics, line_tags>>
    /\ UNCHANGED <<proc_vars, pop_vars, ts_vars>>

\* tokenize_line(line_source, mode) returns line_tokenized
TokenizeLine ==
    /\ line_pc = "call"
    /\ \E mode \in BOOLEAN :
          /\ line_mode' = mode
          /\ line_tokenized' = tokenize_line(line_source, mode)
    /\ line_pc' = "tokenized"
    /\ UNCHANGED <<line_source, line_offset, line_invert, line_text,
                   line_joint, line_lyrics, line_tags, line_again>>
    /\ UNCHANGED <<proc_vars, pop_vars, ts_vars>>

\* tokenize_line(line_source, mode) of tokens.cpp returns line_tokenized
TokenizeLineLegacy ==
    /\ line_pc = "call"
    /\ \E mode \in BOOLEAN :
          /\ line_mode' = mode
          /\ line_tokenized' = tokenize_line_legacy(line_source, mode)
    /\ line_pc' = "tokenized_legacy"
    /\ UNCHANGED <<line_source, line_offset, line_invert, line_text,
                   line_joint, line_lyrics, line_tags, line_again>>
    /\ UNCHANGED <<proc_vars, pop_vars, ts_vars>>

\* serialize_tokens(line_tokenized, joint, lyrics) returns line_text
SerializeTokens ==
    /\ line_pc = "tokenized"
    /\ \E joint \in JointPool : \E treat_as_lyrics_line \in BOOLEAN :
          /\ line_joint' = joint
          /\ line_lyrics' = treat_as_lyrics_line
          /\ line_text' = serialize_tokens(line_tokenized, joint, treat_as_lyrics_line)
    /\ line_pc' = "serialized"
    /\ UNCHANGED <<line_source, line_offset, line_invert, line_mode,
                   line_tokenized, line_tags, line_again>>
    /\ UNCHANGED <<proc_vars, pop_vars, ts_vars>>

\* The line just serialized is tokenized and serialized once more, in the
\* same modes and with the same joint
SerializeAgain ==
    /\ line_pc = "serialized"
    /\ line_again' = serialize_tokens(tokenize_line(line_text, line_mode),
                                      line_joint, line_lyrics)
    /\ line_pc' = "serialized_again"
    /\ UNCHANGED <<line_source, line_offset, line_invert, line_text,
                   line_mode, line_tokenized, line_joint, line_lyrics, line_tags>>
    /\ UNCHANGED <<proc_vars, pop_vars, ts_vars>>

\* read_tags_from_line(line_source) returns line_tags
ReadTagsFromLine ==
    /\ line_pc = "call"
    /\ line_tags' = read_tags_from_line(line_source)
    /\ line_pc' = "tags_read"
    /\ UNCHANGED <<line_source, line_offset, line_invert, line_text,
                   line_mode, line_tokenized, line_joint, line_lyrics, line_again>>
    /\ UNCHANGED <<proc_vars, pop_vars, ts_vars>>

NextLine ==
    \/ CorrectLineOffset
    \/ CorrectLineOffsetAgain
    \/ TokenizeLine
    \/ TokenizeLineLegacy
    \/ SerializeTokens
    \/ SerializeAgain
    \/ ReadTagsFromLine

SpecLine == InitLine /\ [][NextLine]_vars
----------------------------------------------------------------------------
(* Properties of process_lyrics, under Spec *)

\* C1: for every sequence of input lines and every option string
\* process_lyrics completes and returns without raising an error: every
\* string is_it_a_timestamp accepts and every non-empty value
\* is_numeric_only accepts is converted.
C1_NeverRaises == pc # "raised"

\* Whether the first offset tag of the line has a non-empty numeric value
declares_offset(line) ==
    Bind(read_tags_from_line(line), LAMBDA tags :
    Bind(first_offset_tag(tags), LAMBDA k :
        k # 0 /\ tags[k].value # <<>> /\ is_numeric_only(tags[k].value)))

\* The numeric value of the first offset tag of the line
declared_value(line) ==
    Bind(read_tags_from_line(line), LAMBDA tags :
        stol(tags[first_offset_tag(tags)].value).val)

\* The offset declared for input line k: that of the latest line j <= k
\* that declares one, 0 if there is none
offset_in_effect(k) ==
    LET declaring == {j \in 1..k : declares_offset(lyrics[j])}
    IN IF declaring = {} THEN 0
       ELSE declared_value(lyrics[CHOOSE j \in declaring : \A h \in declaring : h <= j])

\* C2: with correctoffset and no numeric override, the offset used to
\* correct input line k is the value of the first offset tag of the latest
\* line j <= k whose first offset tag has a non-empty numeric value, or 0:
\* a declaration takes effect on its own line and on every later line until
\* the next one.
C2_OffsetInEffect ==
    (correctoffset /\ ~overrideoffset) =>
        /\ (pc \in {"lines", "done"} /\ li > 0) => offset = offset_in_effect(li)
        /\ \A k \in 1..Len(corrected_with) :
               corrected_with[k].called =>
                   corrected_with[k].offset = offset_in_effect(k)

\* Two declarations honoured one after the other: both lines corrected,
\* each with its own non-zero offset
C2_Witness ==
    /\ pc = "done" /\ correctoffset /\ ~overrideoffset
    /\ Len(corrected_with) = 2
    /\ corrected_with[1].called /\ corrected_with[2].called
    /\ corrected_with[1].offset # 0 /\ corrected_with[2].offset # 0
    /\ corrected_with[1].offset # corrected_with[2].offset

\* The option tokens correctoffset:N with N non-empty and numeric
numeric_overrides(opts) ==
    Bind(tokenize_line(opts, FALSE), LAMBDA toks :
        {k \in 1..Len(toks) :
            Bind(slice_at_character(toks[k], ":"), LAMBDA opair :
                /\ trim_string(opair.name) = kw_correctoffset
                /\ trim_string(opair.value) # <<>>
                /\ is_numeric_only(trim_string(opair.value)))})

\* N of the last such token
override_value(opts) ==
    Bind(tokenize_line(opts, FALSE), LAMBDA toks :
    Bind(numeric_overrides(opts), LAMBDA ks :
        stol(trim_string(slice_at_character(
                 toks[CHOOSE k \in ks : \A h \in ks : h <= k], ":").value)).val))

\* The running offset is the override while the lines are processed and
\* every correction made so far used it
override_pinned ==
    /\ pc \in {"lines", "done"} => offset = override_value(options)
    /\ \A k \in 1..Len(corrected_with) :
           corrected_with[k].called =>
               corrected_with[k].offset = override_value(options)

\* C3: when the options contain correctoffset:N with N non-empty and
\* numeric, the running offset is N while every line is processed, no
\* offset tag of an input line changes it, every output line is corrected
\* with N, and the offset tags are still stripped from the lines.
override_pinned_always ==
    (pc # "options" /\ numeric_overrides(options) # {}) => override_pinned

C3_OverridePinned ==
    (pc # "options" /\ numeric_overrides(options) # {}) =>
        /\ override_pinned
        /\ \A k \in 1..Len(out) :
               first_offset_tag(read_tags_from_line(out[k])) = 0

\* C5: for every input and options, reading the tags of any output line
\* yields no tag named offset or of, whichever delimiter and whichever
\* spelling of the key the input line used
C5_NoOffsetTagInOutput ==
    \A k \in 1..Len(out) : first_offset_tag(read_tags_from_line(out[k])) = 0

\* The names of the '[' ... ']' spans of the line that hold no other bracket
square_tag_names(text) ==
    Bind(text, LAMBDA line :
        {trim_string(slice_at_character(SubSeq(line, i + 1, j - 1), ":").name) :
            <<i, j>> \in {p \in (1..Len(line)) \X (1..Len(line)) :
                /\ p[1] < p[2]
                /\ line[p[1]] = "[" /\ line[p[2]] = "]"
                /\ \A m \in (p[1] + 1)..(p[2] - 1) :
                       line[m] \notin {"[", "]", "<", ">"}}})

\* C6: with dropmetadata no output line contains a square-bracketed tag
\* named ti, ar, al, au, le, by, re or ve, whatever the order of the tags
C6_NoMetadataInOutput ==
    dropmetadata =>
        \A k \in 1..Len(out) :
            \A n \in 1..Len(metadata_keys) :
                metadata_keys[n] \notin square_tag_names(out[k])

out_claimed_41_35 ==
    <<"[", "0", "0", ":", "4", "1", ".", "3", "5", "]", "S", "h", "e", " ",
      "w", "a", "s", " ", "c", "r", "y", "i", "n", "g">>
out_39_35 ==
    <<"[", "0", "0", ":", "3", "9", ".", "3", "5", "]", " ", "S", "h", "e",
      " ", "w", "a", "s", " ", "c", "r", "y", "i", "n", "g">>
out_claimed_38_85 ==
    <<"[", "0", "0", ":", "3", "8", ".", "8", "5", "]", "S", "h", "e", " ",
      "w", "a", "s", " ", "c", "r", "y", "i", "n", "g">>
out_40_85 ==
    <<"[", "0", "0", ":", "4", "0", ".", "8", "5", "]", " ", "S", "h", "e",
      " ", "w", "a", "s", " ", "c", "r", "y", "i", "n", "g">>

offset_tag_only(text) ==
    Bind(trim_string(text), LAMBDA line :
        /\ Len(line) >= 2
        /\ line[1] = "[" /\ line[Len(line)] = "]"
        /\ \A m \in 2..(Len(line) - 1) : line[m] \notin {"[", "]", "<", ">"}
        /\ trim_string(slice_at_character(SubSeq(line, 2, Len(line) - 1), ":").name)
               \in {kw_offset, kw_of})

\* The run so far emitted nothing for the offset-tag-only lines it passed
nothing_for_offset_tag_only ==
    Len(out) <= li - Cardinality({k \in 1..li : offset_tag_only(lyrics[k])})

\* C11: an input line that is only one square-bracketed offset tag, with
\* any value and optional surrounding whitespace, is passed by
\* process_lyrics without an output line: the pass over it completes and
\* leaves the output as it was, so the output has one line fewer for each
\* such line.
C11_OffsetTagLineDropped ==
    [][(pc = "lines" /\ li < Len(lyrics) /\ offset_tag_only(lyrics[li + 1])) =>
           (pc' = "lines" /\ li' = li + 1 /\ out' = out)]_vars

\* Whether the options have a token whose name is kw
option_given(opts, kw) ==
    Bind(tokenize_line(opts, FALSE), LAMBDA toks :
        \E k \in 1..Len(toks) :
            trim_string(slice_at_character(toks[k], ":").name) = kw)

\* What the tokens named correctoffset, invertoffset and dropmetadata ask
\* for; every other token, and a correctoffset value that is not numeric,
\* counts for nothing
options_asked(opts) ==
    [correctoffset |-> option_given(opts, kw_correctoffset),
     invertoffset |-> option_given(opts, kw_invertoffset),
     dropmetadata |-> option_given(opts, kw_dropmetadata),
     overrideoffset |-> numeric_overrides(opts) # {},
     offset |-> IF numeric_overrides(opts) # {} THEN override_value(opts) ELSE 0]

\* The output lines owed to input line k under the options asked for: none
\* when the stripped line is empty
output_of_line(k, asked) ==
    Bind(strip_line(lyrics[k], asked.dropmetadata,
                    first_offset_tag(read_tags_from_line(lyrics[k])) # 0),
         LAMBDA processed_line :
        IF trim_string(processed_line) = <<>> THEN <<>>
        ELSE IF ~asked.correctoffset THEN <<processed_line>>
        ELSE <<correct_line_offset(processed_line,
                                   IF asked.overrideoffset THEN asked.offset
                                   ELSE offset_in_effect(k),
                                   asked.invertoffset).val>>)

\* C16: the output of process_lyrics is decided by the tokens named
\* correctoffset, invertoffset and dropmetadata alone: a token of any other
\* name changes nothing, and correctoffset:V with a non-numeric V counts as
\* a bare correctoffset (correction enabled, no override, the offset tags
\* of the file honoured)
C16_PermissiveOptions ==
    [][pc = "lines" =>
          \E asked \in {options_asked(options)} :
              /\ correctoffset = asked.correctoffset
              /\ invertoffset = asked.invertoffset
              /\ dropmetadata = asked.dropmetadata
              /\ overrideoffset = asked.overrideoffset
              /\ (pc' = "lines" /\ li' = li + 1) =>
                     out' = out \o output_of_line(li + 1, asked)]_vars

\* A run under correctoffset:1x, an unknown name and invertoffset returned
\* a line corrected by the offset its file declares
C16_Witness ==
    /\ pc = "done"
    /\ options = opt_word_invert
    /\ correctoffset /\ ~overrideoffset /\ invertoffset /\ ~dropmetadata
    /\ Len(corrected_with) = 2
    /\ corrected_with[2].called
    /\ corrected_with[2].offset # 0

\* The offset tags of the line, as positions in its tags
offset_tags(tags) ==
    {k \in 1..Len(tags) : tags[k].name \in {kw_offset, kw_of}}

\* Whether a tag value is a number: digits, at least one, with at most a
\* leading '-' and dots
numeric_value(value) ==
    /\ \E i \in 1..Len(value) : IsDigit(value[i])
    /\ \A i \in 1..Len(value) :
           IsDigit(value[i]) \/ value[i] = "." \/ (i = 1 /\ value[i] = "-")

\* The output lines owed to a line once its offset tags are taken out
output_without_offset_tags(line, drop, correct, o, inv) ==
    Bind(strip_line(line, drop, TRUE), LAMBDA processed_line :
        IF trim_string(processed_line) = <<>> THEN <<>>
        ELSE IF ~correct THEN <<processed_line>>
        ELSE <<correct_line_offset(processed_line, o, inv).val>>)

\* C22: on a line with several offset tags only the first one can change the
\* running offset: when its value is empty or not a number the running
\* offset stays as it was, whatever the later offset tags say, and the line
\* is still handled as a line with an offset tag
C22_FirstOffsetTagWins ==
    [][(pc = "lines" /\ li < Len(lyrics)) =>
          Bind(read_tags_from_line(lyrics[li + 1]), LAMBDA tags :
              Cardinality(offset_tags(tags)) >= 2 =>
                  Bind(tags[CHOOSE k \in offset_tags(tags) :
                               \A h \in offset_tags(tags) : k <= h].value,
                       LAMBDA first :
                      /\ pc' = "lines" /\ li' = li + 1
                      /\ offset' = IF numeric_value(first) /\ ~overrideoffset
                                   THEN stol(first).val ELSE offset
                      /\ out' = out \o output_without_offset_tags(
                                           lyrics[li + 1], dropmetadata,
                                           correctoffset, offset', invertoffset)))]_vars

----------------------------------------------------------------------------
(* Properties of process_lyrics called twice, under SpecLinked *)

\* C26: running process_lyrics twice with the same options gives the lines
\* of running it once, for every input and every option string, a numeric
\* override correctoffset:N and offset tags in '< >' included: the second
\* call completes and returns what the first returned
C26_SecondRunChangesNothing ==
    /\ (run = 2 /\ pc = "done") => out = out_before
    /\ run = 2 => pc # "raised"

----------------------------------------------------------------------------
(* Properties of pop_tag, under SpecPop *)

\* Whether the square brackets of the line are balanced and not nested
balanced_not_nested(text) ==
    Bind(text, LAMBDA line :
        LET depth(n) == count(SubSeq(line, 1, n), "[") - count(SubSeq(line, 1, n), "]")
        IN /\ \A n \in 1..Len(line) : depth(n) \in {0, 1}
           /\ depth(Len(line)) = 0)

\* Whether the line has a '[name:value]' span whose name part contains key
has_span_named(text, key) ==
    Bind(text, LAMBDA line :
        \E i, j \in 1..Len(line) :
            /\ i < j
            /\ line[i] = "[" /\ line[j] = "]"
            /\ \A m \in (i + 1)..(j - 1) : line[m] \notin {"[", "]"}
            /\ Bind(SubSeq(line, i + 1, j - 1), LAMBDA inside :
                   /\ find_first_of(inside, ":") # npos
                   /\ find(slice_at_character(inside, ":").name, key) # npos))

\* C7: on a line whose square brackets are balanced and not nested the
\* result of pop_tag(line, key) contains no '[name:value]' span whose name
\* part contains key (a non-empty name), however many there are and
\* whatever precedes them
C7_EveryOccurrenceRemoved ==
    (pop_pc = "returned" /\ pop_key # <<>> /\ balanced_not_nested(pop_source)) =>
        ~has_span_named(pop_out, pop_key)

\* The positions of the tokens of the line that contain key
tokens_with_key(line, key) ==
    Bind(tokenize_line(line, TRUE), LAMBDA toks :
        {i \in 1..Len(toks) : find(toks[i], key) # npos})

\* Whether there is something pop_tag can remove: a token contains key and
\* the first such token has a '[' token at or before it and a ']' token at
\* or after it
can_remove(line, key) ==
    Bind(tokenize_line(line, TRUE), LAMBDA toks :
    Bind(tokens_with_key(line, key), LAMBDA hits :
        /\ hits # {}
        /\ LET first == CHOOSE i \in hits : \A h \in hits : i <= h
           IN /\ \E i \in 1..first : toks[i] = <<"[">>
              /\ \E i \in first..Len(toks) : toks[i] = <<"]">>))

token_count(text) == Len(tokenize_line(text, TRUE))

\* C28: pop_tag terminates for every line and every key, the empty key and
\* lines with the key many times over included: it calls itself only on a
\* line with fewer tokens than the one it was called on, and the calls it
\* makes of itself are at most half the number of tokens of the line
C28_RecursionBounded ==
    pop_pc = "returned" =>
        /\ pop_calls # <<>> /\ pop_calls[1] = pop_source
        /\ \A k \in 1..(Len(pop_calls) - 1) :
               token_count(pop_calls[k + 1]) < token_count(pop_calls[k])
        /\ 2 * (Len(pop_calls) - 1) <= token_count(pop_source)

\* pop_tag has returned from a line with the key in three tags: it called
\* itself twice
C28_Witness ==
    /\ pop_pc = "returned"
    /\ pop_key = key_x
    /\ pop_source = frag_x1 \o frag_x2 \o frag_x1
    /\ Len(pop_calls) = 3
    /\ pop_out = <<>>

----------------------------------------------------------------------------
(* Properties of apply_offset, under SpecTs *)

\* max(0, d - o * (invert ? -1 : 1))
floor_at_zero(d, o, invert) ==
    LET moved == IF invert THEN d + o ELSE d - o
    IN IF moved > 0 THEN moved ELSE 0

text_15_00 == <<"0", "0", ":", "1", "5", ".", "0", "0">>

\* C4: apply_offset(d, o, invert) returns max(0, d - o * (invert ? -1 : 1)):
\* never negative, later by |o| for a negative offset without invert,
\* earlier for a positive one, the two swapped by invert; 00:13.75 with
\* offset -1250 formats to 00:15.00 and apply_offset(0, 1, false) is 0.
\* The same holds of apply_offset_to_timestamp on a timestamp's text.
C4_ApplyOffset ==
    /\ ts_pc \in {"offset", "rendered"} =>
           /\ ts_duration = floor_at_zero(ts_before, ts_offset, ts_invert)
           /\ ts_duration >= 0
           /\ (~ts_invert /\ ts_offset < 0 /\ ts_before >= 0) =>
                  ts_duration = ts_before - ts_offset
           /\ (~ts_invert /\ ts_offset > 0 /\ ts_before >= ts_offset) =>
                  ts_duration = ts_before - ts_offset
           /\ (ts_invert /\ ts_offset > 0 /\ ts_before >= 0) =>
                  ts_duration = ts_before + ts_offset
           /\ (ts_invert /\ ts_offset < 0 /\ ts_before >= -ts_offset) =>
                  ts_duration = ts_before + ts_offset
           /\ (ts_before = 0 /\ ts_offset = 1 /\ ~ts_invert) => ts_duration = 0
    /\ (/\ ts_pc = "rendered" /\ ts_before = 13750
        /\ ts_offset = -1250 /\ ~ts_invert) => ts_text = text_15_00
    /\ (ts_pc = "rewritten" /\ is_it_a_timestamp(ts_source)) =>
           ts_text = ms_to_timestamp(floor_at_zero(timestamp_to_ms(ts_source).val,
                                                   ts_offset, ts_invert))

\* The floor is met: the offset would have taken the timestamp below zero
C4_Witness ==
    /\ ts_pc = "rendered"
    /\ (IF ts_invert THEN ts_before + ts_offset ELSE ts_before - ts_offset) < 0
    /\ ts_before > 0
    /\ ts_duration = 0


\* Whether token k of the tokens lies in a '[' ... ']' span that holds no
\* other square bracket and whose name part, the text before its first ':',
\* contains key
in_span_named(tokens, k, key) ==
    \E i \in 1..k : \E j \in k..Len(tokens) :
        /\ tokens[i] = <<"[">> /\ tokens[j] = <<"]">>
        /\ i < j
        /\ \A m \in (i + 1)..(j - 1) : tokens[m] \notin {<<"[">>, <<"]">>}
        /\ Bind(serialize_tokens(SubSeq(tokens, i + 1, j - 1), <<" ">>, FALSE),
                LAMBDA inside :
                    find(slice_at_character(inside, ":").name, key) # npos)

\* The tokens 1..n that lie in no such span, in their order
RECURSIVE tokens_outside(_, _, _)
tokens_outside(tokens, n, key) ==
    IF n = 0 THEN <<>>
    ELSE Bind(tokens_outside(tokens, n - 1, key), LAMBDA before :
             IF in_span_named(tokens, n, key) THEN before
             ELSE Append(before, tokens[n]))

\* Whether a[i..] can be read in b[j..], in order
RECURSIVE found_in_order(_, _, _, _)
found_in_order(a, i, b, j) ==
    IF i > Len(a) THEN TRUE
    ELSE IF j > Len(b) THEN FALSE
    ELSE IF a[i] = b[j] THEN found_in_order(a, i + 1, b, j + 1)
    ELSE found_in_order(a, i, b, j + 1)

\* C18: pop_tag(line, key) removes only tag spans: every token it removes
\* lies in one '[' ... ']' span that holds no other bracket and whose name
\* part contains key (a non-empty name); the tokens outside such a span
\* (lyric words, timestamps, other tags) are in the result, in their order
C18_OnlyTagSpansRemoved ==
    (pop_pc = "returned" /\ pop_key # <<>>) =>
        Bind(tokenize_line(pop_source, TRUE), LAMBDA tokens :
            found_in_order(tokens_outside(tokens, Len(tokens), pop_key), 1,
                           tokenize_line(pop_out, TRUE), 1))

\* Whether text has key at the 1-based position p
occurs_at(text, key, p) ==
    /\ p + Len(key) - 1 <= Len(text)
    /\ SubSeq(text, p, p + Len(key) - 1) = key

\* Whether the occurrence of key at position p of text lies right of the
\* first ':' of a '[' ... ']' span of characters that holds no other square
\* bracket
in_value_part(text, key, p) ==
    \E i \in 1..p : \E j \in p..Len(text) :
        /\ text[i] = "[" /\ text[j] = "]"
        /\ \A m \in (i + 1)..(j - 1) : text[m] \notin {"[", "]"}
        /\ p + Len(key) - 1 < j
        /\ \E c \in (i + 1)..(p - 1) : text[c] = ":"

\* Whether key occurs in text, and only in value parts
only_in_value_parts(text, key) ==
    /\ key # <<>>
    /\ \E p \in 1..Len(text) : occurs_at(text, key, p)
    /\ \A p \in 1..Len(text) :
           occurs_at(text, key, p) => in_value_part(text, key, p)

\* C19: when every occurrence of key in the line lies in the value part, right
\* of the first ':', of a square-bracketed span, pop_tag(line, key) returns
\* the line unchanged
C19_ValueOnlyMatchUnchanged ==
    (pop_pc = "returned" /\ only_in_value_parts(pop_source, pop_key)) =>
        pop_out = pop_source

\* A call whose key is the value of one tag and of nothing else, beside a
\* tag of another name, has returned
C19_Witness ==
    /\ pop_pc = "returned"
    /\ pop_key = key_x
    /\ pop_source = frag_a \o frag_yx \o frag_rest
    /\ only_in_value_parts(pop_source, pop_key)
    /\ pop_out = pop_source

\* Whether result[j..] is text[i..] with some ranges of characters deleted, each
\* range starting at a '[' and ending at a ']'
RECURSIVE spans_deleted(_, _, _, _)
spans_deleted(text, i, result, j) ==
    IF i > Len(text) THEN j > Len(result)
    ELSE \/ /\ j <= Len(result)
            /\ text[i] = result[j]
            /\ spans_deleted(text, i + 1, result, j + 1)
         \/ /\ text[i] = "["
            /\ \E k \in (i + 1)..Len(text) :
                   /\ text[k] = "]"
                   /\ spans_deleted(text, k + 1, result, j)

\* C20: when pop_tag removes a span, the result is the input line with
\* exactly the characters of the removed spans deleted; the text before and
\* after them is kept character for character, whitespace included
C20_ExactlyTheSpanDeleted ==
    (pop_pc = "returned" /\ pop_key # <<>> /\ pop_out # pop_source) =>
        spans_deleted(pop_source, 1, pop_out, 1)

\* Whether every character of the text is a digit
all_digits(text) == \A i \in 1..Len(text) : IsDigit(text[i])

\* The text without its leading '-', if it has one
magnitude_text(text) ==
    IF text # <<>> /\ text[1] = "-" THEN SubSeq(text, 2, Len(text)) ELSE text

\* Whether T is canonical: an optional '-', the minutes zero-padded to two
\* digits (more only when they need more), ':', two digits of seconds from
\* 00 to 59, '.', two digits of centiseconds
canonical_timestamp(text) ==
    Bind(magnitude_text(text), LAMBDA body :
        /\ Len(body) >= 8
        /\ body[Len(body) - 5] = ":" /\ body[Len(body) - 2] = "."
        /\ all_digits(SubSeq(body, 1, Len(body) - 6))
        /\ (Len(body) = 8 \/ body[1] # "0")
        /\ all_digits(SubSeq(body, Len(body) - 4, Len(body) - 3))
        /\ body[Len(body) - 4] \in {"0", "1", "2", "3", "4", "5"}
        /\ all_digits(SubSeq(body, Len(body) - 1, Len(body))))

\* Whether T is a '-' followed by digits that are all zero
negative_zero(text) ==
    /\ text # <<>> /\ text[1] = "-"
    /\ \A i \in 2..Len(text) : text[i] \in {"0", ":", "."}

\* C12 as claimed: for every canonical timestamp string T, optionally
\* preceded by '-', formatting the parsed duration gives back T
C12_AsClaimed ==
    (ts_pc = "formatted" /\ canonical_timestamp(ts_source)) => ts_text = ts_source

\* C12 as amended: for every canonical timestamp string T other than a
\* negative zero, formatting the parsed duration gives back T; a negative
\* zero is formatted without its '-'
C12_RoundTrip ==
    (ts_pc = "formatted" /\ canonical_timestamp(ts_source)) =>
        ts_text = IF negative_zero(ts_source) THEN Tail(ts_source) ELSE ts_source

\* A negative canonical timestamp with three digits of minutes has made the
\* round trip
C12_Witness ==
    /\ ts_pc = "formatted"
    /\ canonical_timestamp(ts_source)
    /\ ts_source[1] = "-"
    /\ Len(ts_source) = 10
    /\ ts_duration < 0
    /\ ts_text = ts_source

\* Whether character i of the line is a space directly inside a bracket:
\* only spaces lie between it and a '[' or '<' before it, or a ']' or '>'
\* after it
space_inside_bracket(line, i) ==
    /\ line[i] = " "
    /\ \/ \E j \in 1..(i - 1) :
              /\ line[j] \in {"[", "<"}
              /\ \A m \in (j + 1)..i : line[m] = " "
       \/ \E j \in (i + 1)..Len(line) :
              /\ line[j] \in {"]", ">"}
              /\ \A m \in i..(j - 1) : line[m] = " "

\* The line with the spaces directly inside its brackets taken out
RECURSIVE tight_upto(_, _)
tight_upto(line, n) ==
    IF n = 0 THEN <<>>
    ELSE IF space_inside_bracket(line, n) THEN tight_upto(line, n - 1)
    ELSE Append(tight_upto(line, n - 1), line[n])

\* C15: for every line L, serialize_tokens(tokenize_line(L, true), ' ',
\* true) is L with the spaces directly inside '[ ]' and '< >' collapsed:
\* every other space of L is kept and no space is written where L has none
C15_TokenizeSerializeRoundTrip ==
    pop_pc = "reserialized" => pop_out = tight_upto(pop_source, Len(pop_source))

\* The position of the first c in the text, 0 if there is none
first_position(text, c) ==
    IF \E i \in 1..Len(text) : text[i] = c
    THEN CHOOSE i \in 1..Len(text) : text[i] = c /\ \A j \in 1..(i - 1) : text[j] # c
    ELSE 0

\* Whether the text is [-] M : S . C with M, S and C non-empty digit runs
colon_then_dot(text) ==
    Bind(magnitude_text(text), LAMBDA body :
    Bind(first_position(body, ":"), LAMBDA cp :
    Bind(first_position(body, "."), LAMBDA dp :
        /\ 1 < cp /\ cp + 1 < dp /\ dp < Len(body)
        /\ all_digits(SubSeq(body, 1, cp - 1))
        /\ all_digits(SubSeq(body, cp + 1, dp - 1))
        /\ all_digits(SubSeq(body, dp + 1, Len(body))))))

\* The integer values of the three digit runs of such a text and its sign
components_of(text) ==
    Bind(magnitude_text(text), LAMBDA body :
    Bind(first_position(body, ":"), LAMBDA cp :
    Bind(first_position(body, "."), LAMBDA dp :
        [sign |-> IF text[1] = "-" THEN -1 ELSE 1,
         M |-> DigitsValue(SubSeq(body, 1, cp - 1), cp - 1),
         S |-> DigitsValue(SubSeq(body, cp + 1, dp - 1), dp - cp - 1),
         C |-> DigitsValue(SubSeq(body, dp + 1, Len(body)), Len(body) - dp)])))

\* sign * (M*60000 + S*1000 + C*10)
duration_of(t) == t.sign * (t.M * 60000 + t.S * 1000 + t.C * 10)

\* C13: for every timestamp-shaped text whose seconds are >= 60 or whose
\* centiseconds are >= 100, parse returns sign * (mm*60000 + ss*1000 +
\* cs*10), the duration of the carried canonical form, and signals a
\* warning; it signals none when both components are in range
C13_CarryNormalization ==
    (ts_pc = "parsed" /\ colon_then_dot(ts_source)) =>
        LET t == components_of(ts_source)
        IN IF t.S >= 60 \/ t.C >= 100
           THEN ts_duration = duration_of(t) /\ ts_warning
           ELSE ~ts_warning

\* C17: for every timestamp-shaped text in which ':' precedes '.', however
\* many digits each component has, parse returns sign * (M*60000 + S*1000
\* + C*10) with M, S and C the integer values of the digit runs before
\* ':', between ':' and '.', and after '.'
C17_ComponentsOfAnyWidth ==
    (ts_pc = "parsed" /\ colon_then_dot(ts_source)) =>
        ts_duration = duration_of(components_of(ts_source))

\* The shape of a timestamp as it is specified: non-empty, exactly one ':'
\* and exactly one '.', and nothing else but digits after an optional
\* leading '-'
timestamp_shaped(text) ==
    /\ text # <<>>
    /\ Cardinality({i \in 1..Len(text) : text[i] = ":"}) = 1
    /\ Cardinality({i \in 1..Len(text) : text[i] = "."}) = 1
    /\ \A i \in 1..Len(text) :
           \/ text[i] \in {":", "."}
           \/ text[i] \in {"0", "1", "2", "3", "4", "5", "6", "7", "8", "9"}
           \/ (i = 1 /\ text[i] = "-")

C27_LegacyAgreesWithParse ==
    ts_pc = "converted" =>
        Bind(parse_timestamp(ts_source), LAMBDA parsed :
            ~parsed.raised /\ ts_duration = parsed.val)

----------------------------------------------------------------------------
(* Properties of the line operations, under SpecLine *)

\* The token correct_line_offset must write for the token t
token_corrected(t, o, inv) ==
    IF timestamp_shaped(t)
    THEN as_string(apply_offset(parse_timestamp(t).val, o, inv))
    ELSE t

\* C21: correct_line_offset(line, o, invert) rewrites exactly the
\* timestamp-shaped tokens of the line, each to
\* format(apply_offset(parse(token), o, invert)); the tokens are as many and
\* in the same order, and a token that is not timestamp-shaped is unaltered
C21_OnlyTimestampsRewritten ==
    line_pc = "corrected" =>
        Bind(tokenize_line(line_source, TRUE), LAMBDA tokens :
            line_text =
                serialize_tokens([i \in 1..Len(tokens) |->
                                     token_corrected(tokens[i], line_offset,
                                                     line_invert)],
                                 <<" ">>, TRUE))

\* The first position from p on where the line has one of the characters, or
\* one past its end
next_of(line, p, chars) ==
    IF \E i \in p..Len(line) : line[i] \in chars
    THEN CHOOSE i \in p..Len(line) :
             line[i] \in chars /\ \A j \in p..(i - 1) : line[j] \notin chars
    ELSE Len(line) + 1

\* The characters of line[a..b] that are not opening delimiters
RECURSIVE accumulated(_, _, _)
accumulated(line, a, b) ==
    IF a > b THEN <<>>
    ELSE IF line[b] \in {"[", "<"} THEN accumulated(line, a, b - 1)
    ELSE Append(accumulated(line, a, b - 1), line[b])

\* The non-empty candidates of the line from position p on: each is what
\* lies between an opening delimiter and the next closing delimiter or the
\* end of the line
RECURSIVE candidates_from(_, _)
candidates_from(line, p) ==
    Bind(next_of(line, p, {"[", "<"}), LAMBDA opening :
        IF opening > Len(line) THEN <<>>
        ELSE Bind(next_of(line, opening + 1, {"]", ">"}), LAMBDA closing :
            Bind(accumulated(line, opening + 1, closing - 1), LAMBDA candidate :
                (IF candidate = <<>> THEN <<>> ELSE <<candidate>>)
                    \o candidates_from(line, closing + 1))))

\* The text without the whitespace at its two ends
trimmed(text) ==
    IF \A i \in 1..Len(text) : IsSpace(text[i]) THEN <<>>
    ELSE SubSeq(text,
                next_of(text, 1, {text[i] : i \in 1..Len(text)} \ {" ", "\t", "\n", "\r", "\f"}),
                CHOOSE r \in 1..Len(text) :
                    ~IsSpace(text[r]) /\ \A j \in (r + 1)..Len(text) : IsSpace(text[j]))

\* The tag owed to a candidate
tag_of(candidate) ==
    IF timestamp_shaped(candidate) THEN [name |-> kw_time, value |-> candidate]
    ELSE Bind(first_position(candidate, ":"), LAMBDA colon :
        IF colon = 0
        THEN [name |-> trimmed(candidate), value |-> <<>>]
        ELSE [name |-> trimmed(SubSeq(candidate, 1, colon - 1)),
              value |-> trimmed(SubSeq(candidate, colon + 1, Len(candidate)))])

RECURSIVE without_spaces(_)
without_spaces(text) ==
    IF text = <<>> THEN <<>>
    ELSE IF Head(text) = " " THEN without_spaces(Tail(text))
    ELSE <<Head(text)>> \o without_spaces(Tail(text))

\* The tokens written one after the other
RECURSIVE flattened(_)
flattened(tokens) ==
    IF tokens = <<>> THEN <<>> ELSE Head(tokens) \o flattened(Tail(tokens))

joint_owed(before, after, lyrics_mode) ==
    ~(lyrics_mode /\ (\/ before \in {<<"[">>, <<"<">>}
                      \/ after \in {<<"]">>, <<">">>, <<":">>}))

\* The tokens from the k-th on, each after the joint owed to it
RECURSIVE written_from(_, _, _, _)
written_from(tokens, k, joint, lyrics_mode) ==
    IF k > Len(tokens) THEN <<>>
    ELSE (IF k > 1 /\ joint_owed(tokens[k - 1], tokens[k], lyrics_mode)
          THEN joint ELSE <<>>)
         \o tokens[k] \o written_from(tokens, k + 1, joint, lyrics_mode)

\* C25: serialize_tokens(tokens, joint, lyrics_mode) writes the tokens in
\* order, with the joint between two consecutive tokens except, in lyrics
\* mode, after '[' or '<' and before ']', '>' or ':'; nothing is written
\* before the first token or after the last
C25_JointsBetweenTokens ==
    line_pc = "serialized" =>
        line_text = written_from(line_tokenized, 1, line_joint, line_lyrics)

\* '[ a : a ]' has been tokenized and serialized in lyrics mode with a space
\* for joint: no space after '[', before ':' and before ']'
C25_Witness ==
    /\ line_pc = "serialized"
    /\ line_lyrics
    /\ line_joint = <<" ">>
    /\ line_source = piece_open \o piece_spaced \o piece_close
    /\ line_text = <<"[", "a", ":", " ", "a", "]">>

\* C29: lyrics-mode normalisation N(L) = serialize_tokens(tokenize_line(L,
\* true), ' ', true) gives N(N(L)) = N(L) for every line L, with stand-alone
\* ':' tokens or unmatched brackets too, and correct_line_offset with
\* offset 0 applied twice returns what it returned the first time
C29_NormalisationIdempotent ==
    /\ (/\ line_pc = "serialized_again"
        /\ line_mode /\ line_lyrics /\ line_joint = <<" ">>)
           => line_again = line_text
    /\ line_pc # "raised_again"
    /\ (line_pc = "corrected_again" /\ line_offset = 0)
           => line_again = line_text

----------------------------------------------------------------------------
(* A property of process_lyrics without options, under Spec *)

\* The line with every '[' ... ']' span left out whose first character is
\* '[', whose last is ']' and whose name is offset or of
RECURSIVE without_offset_tags(_)
without_offset_tags(line) ==
    IF line = <<>> THEN <<>>
    ELSE Bind(next_of(line, 1, {"]"}), LAMBDA closing :
        IF /\ Head(line) = "["
           /\ closing <= Len(line)
           /\ \A m \in 2..(closing - 1) : line[m] # "["
           /\ trimmed(SubSeq(line, 2,
                  Min(closing, next_of(line, 1, {":"})) - 1)) \in {kw_offset, kw_of}
        THEN without_offset_tags(SubSeq(line, closing + 1, Len(line)))
        ELSE <<Head(line)>> \o without_offset_tags(Tail(line)))

\* C30: with options that name neither correctoffset nor dropmetadata, an
\* input line with no offset tag that is not blank is emitted as it is, the
\* output keeps the order of the input, only a line with an offset tag is
\* emitted changed, and the only lines left out are the blank ones and the
\* ones that removing the offset tag leaves blank
C30_UntouchedWithoutOptions ==
    [][(/\ pc = "lines" /\ ~correctoffset /\ ~dropmetadata
        /\ pc' = "lines" /\ li' = li + 1) =>
          Bind(lyrics[li + 1], LAMBDA line :
              IF offset_tags(read_tags_from_line(line)) = {}
              THEN out' = (IF trimmed(line) = <<>> THEN out ELSE Append(out, line))
              ELSE \/ /\ out' = out
                      /\ trimmed(without_offset_tags(line)) = <<>>
                   \/ /\ Len(out') = Len(out) + 1
                      /\ SubSeq(out', 1, Len(out)) = out)]_vars
====
